---- MODULE Spec2Model ----
(***************************************************************************)
(* A model of the Apps Script copier: the command-line program             *)
(* (src/index.js, "cli") and the HTTP server (src/unnamed/part_001,        *)
(* "server").  Remote services (Sheets, Drive, Apps Script) are modelled   *)
(* by the variables proj, source, sheetRows and drive; every remote call   *)
(* either returns or raises, chosen nondeterministically.                  *)
(*                                                                         *)
(* Strings the code inspects (file names, ids, references) are sequences   *)
(* of one-character strings; strings it only carries (file sources) are    *)
(* atoms.                                                                  *)
(***************************************************************************)
EXTENDS Naturals, Integers, Sequences, FiniteSets, TLC

VARIABLES
    prog,           \* which program runs: "cli" or "server"
    proj,           \* remote: script id -> file list of that script project
    source,         \* remote: file list of the source script project
    sheetRows,      \* remote: rows of the master sheet
    sheetNames,     \* remote: titles of the sheets of the master spreadsheet
    drive,          \* remote: spreadsheet id -> bound script id (or NoId)
    req,            \* the request body (server)
    pc,             \* position of the single thread of control
    i,              \* loop index of the batch in progress (0-based, as in the code)
    loc,            \* locals of the per-target operation in progress
    sourceContent,  \* cli main: the source snapshot read before the loop
    scriptIdMap,    \* server: the map returned by readScriptIds
    targetSpreadsheets, \* cli main: the list returned by readSheetIds
    response,       \* server: the response object; cli: the counters
    sent,           \* responses emitted so far (status codes)
    calls,          \* remote calls issued for the target in progress
    hist            \* history: per-target facts the claims speak about

vars == <<prog, proj, source, sheetRows, sheetNames, drive, req, pc, i, loc, sourceContent,
          scriptIdMap, targetSpreadsheets, response, sent, calls, hist>>

remoteRO == <<source, sheetRows, sheetNames, drive>>

----------------------------------------------------------------------------
(* Bounds of the model *)

MaxFiles == 3
MaxTransfers == 2
MaxTargets == 2
MaxBtnTargets == 2
MaxButtons == 2
MaxRows == 2
MaxIdExtra == 1
MaxIdLen == 2
MaxCellLen == 5

----------------------------------------------------------------------------
(* Strings *)

Rep(c, n) == [k \in 1..n |-> c]

\* String.prototype.includes
Includes(s, sub) ==
    \E k \in 0..(Len(s) - Len(sub)) : SubSeq(s, k + 1, k + Len(sub)) = sub

CodeName == <<"C", "o", "d", "e">>
CodigoName == <<"C", "o_acute", "d", "i", "g", "o">>
TempName == <<"t", "e", "m", "p", "C", "o", "p", "y", "B", "u", "t", "t", "o", "n", "s">>
UtilsName == <<"U", "t", "i", "l", "s">>
MyCodeName == <<"M", "y", "C", "o", "d", "e">>
ManifestName == <<"a", "p", "p", "s", "s", "c", "r", "i", "p", "t">>
PageName == <<"P", "a", "g", "e">>

NoId == <<>>

\* Script ids: 20 characters of [A-Za-z0-9_-]
S1 == <<"S", "1">> \o Rep("x", 18)
S2 == <<"S", "2">> \o Rep("x", 18)
ScriptIds == {S1, S2}

\* [a-zA-Z0-9-_]
IdChars ==
    { "a", "b", "c", "d", "e", "f", "g", "h", "i", "j", "k", "l", "m",
      "n", "o", "p", "q", "r", "s", "t", "u", "v", "w", "x", "y", "z",
      "A", "B", "C", "D", "E", "F", "G", "H", "I", "J", "K", "L", "M",
      "N", "O", "P", "Q", "R", "S", "T", "U", "V", "W", "X", "Y", "Z",
      "0", "1", "2", "3", "4", "5", "6", "7", "8", "9", "-", "_" }

WhiteSpace == {" ", "\t", "\n", "\r"}

\* String.prototype.trim
RECURSIVE Trim(_)
Trim(s) ==
    IF s = <<>> THEN s
    ELSE IF Head(s) \in WhiteSpace THEN Trim(Tail(s))
    ELSE IF s[Len(s)] \in WhiteSpace THEN Trim(SubSeq(s, 1, Len(s) - 1))
    ELSE s

\* the capture cut to its first character
CaptureOne(s, pre) ==
    LET P == {p \in 1..Len(s) :
                /\ p + Len(pre) <= Len(s)
                /\ SubSeq(s, p, p + Len(pre) - 1) = pre
                /\ s[p + Len(pre)] \in IdChars}
    IN  IF P = {} THEN <<>>
        ELSE LET p == CHOOSE x \in P : \A y \in P : x <= y
             IN  << s[p + Len(pre)] >>

\* input.match(/<pre>([a-zA-Z0-9-_]+)/)[1]: the leftmost place where pre is
\* followed by an id character, and the longest run of id characters there;
\* <<>> when there is no match
Capture(s, pre) ==
    LET P == {p \in 1..Len(s) :
                /\ p + Len(pre) <= Len(s)
                /\ SubSeq(s, p, p + Len(pre) - 1) = pre
                /\ s[p + Len(pre)] \in IdChars}
    IN  IF P = {} THEN <<>>
        ELSE LET p == CHOOSE x \in P : \A y \in P : x <= y
                 q == p + Len(pre)
                 e == CHOOSE x \in q..Len(s) :
                        /\ \A k \in q..x : s[k] \in IdChars
                        /\ x = Len(s) \/ s[x + 1] \notin IdChars
             IN  SubSeq(s, q, e)

\* String.prototype.split on a one-character separator
RECURSIVE Split(_, _)
Split(s, sep) ==
    LET P == {p \in 1..Len(s) : s[p] = sep}
    IN  IF P = {} THEN << s >>
        ELSE LET p == CHOOSE x \in P : \A y \in P : x <= y
             IN  << SubSeq(s, 1, p - 1) >> \o Split(SubSeq(s, p + 1, Len(s)), sep)

\* cell ? cell.split(',').map(t => t.trim()).filter(t => t) : []
tokensOf(cell) ==
    IF cell = <<>> THEN <<>>
    ELSE LET parts == Split(cell, ",")
         IN  SelectSeq([k \in 1..Len(parts) |-> Trim(parts[k])], LAMBDA t : t # <<>>)

Digits == <<"0", "1", "2", "3", "4", "5", "6", "7", "8", "9">>

DigitSet == {Digits[k] : k \in 1..Len(Digits)}

DigitValue(c) == (CHOOSE k \in 1..Len(Digits) : Digits[k] = c) - 1

\* the value of a sequence of decimal digits
RECURSIVE DecimalValue(_)
DecimalValue(ds) ==
    IF ds = <<>> THEN 0
    ELSE 10 * DecimalValue(SubSeq(ds, 1, Len(ds) - 1)) + DigitValue(ds[Len(ds)])

NaN == [nan |-> TRUE, val |-> 0]

\* parseInt of a trimmed string, radix 10: an optional sign, then the longest
\* run of digits; NaN when there is no digit there
parseInt(t) ==
    LET signed == t # <<>> /\ Head(t) \in {"-", "+"}
        body == IF signed THEN Tail(t) ELSE t
        n == CHOOSE x \in 0..Len(body) :
                /\ \A k \in 1..x : body[k] \in DigitSet
                /\ x = Len(body) \/ body[x + 1] \notin DigitSet
        v == DecimalValue(SubSeq(body, 1, n))
    IN  IF n = 0 THEN NaN
        ELSE [nan |-> FALSE, val |-> IF signed /\ Head(t) = "-" THEN 0 - v ELSE v]

\* the loop advances by one token instead of two
RECURSIVE coordinatePairsSliding(_)
coordinatePairsSliding(tokens) ==
    IF Len(tokens) < 2 THEN <<>>
    ELSE LET col == parseInt(tokens[1])
             rowNum == parseInt(tokens[2])
         IN  (IF ~col.nan /\ ~rowNum.nan THEN << <<col.val, rowNum.val>> >> ELSE <<>>)
                \o coordinatePairsSliding(Tail(tokens))

\* readScriptIds, lines 157-166: the tokens taken two at a time; a pair is
\* kept when both tokens parse as integers; an unpaired last token is dropped
RECURSIVE coordinatePairs(_)
coordinatePairs(tokens) ==
    IF Len(tokens) < 2 THEN <<>>
    ELSE LET col == parseInt(tokens[1])
             rowNum == parseInt(tokens[2])
         IN  (IF ~col.nan /\ ~rowNum.nan THEN << <<col.val, rowNum.val>> >> ELSE <<>>)
                \o coordinatePairs(SubSeq(tokens, 3, Len(tokens)))

UrlPattern1 == <<"/", "s", "p", "r", "e", "a", "d", "s", "h", "e", "e", "t", "s", "/", "d", "/">>
UrlPattern2 == Tail(UrlPattern1)
UrlPattern3 == <<"/", "d", "/">>

\* extractSpreadsheetId: null (NoId) for an empty input, the trimmed input for
\* a bare id, else the first pattern's capture, else the trimmed input
extractSpreadsheetId(input) ==
    IF input = <<>> THEN NoId
    ELSE IF ~Includes(input, <<"/">>) /\ ~Includes(input, <<"h", "t", "t", "p">>)
         THEN Trim(input)
    ELSE IF Capture(input, UrlPattern1) # <<>> THEN Capture(input, UrlPattern1)
    ELSE IF Capture(input, UrlPattern2) # <<>> THEN Capture(input, UrlPattern2)
    ELSE IF Capture(input, UrlPattern3) # <<>> THEN Capture(input, UrlPattern3)
    ELSE Trim(input)

\* validateAndTestScriptAccess: the two format checks
MinScriptIdLen == 20

validFormat(scriptId) ==
    /\ Len(scriptId) >= MinScriptIdLen
    /\ \A k \in 1..Len(scriptId) : scriptId[k] \in IdChars


----------------------------------------------------------------------------
(* Script files *)

File(n, t, s) == [name |-> n, type |-> t, source |-> s]

\* the value of Array.prototype.find when nothing matches
NoFile == File(<<>>, "undefined", "undefined")

\* Array.prototype.find: the first element among the matching positions S
Find(files, S) ==
    IF S = {} THEN NoFile
    ELSE files[CHOOSE k \in S : \A j \in S : k <= j]

\* files a target project may hold
TargetFileUniverse ==
    { File(CodeName, "SERVER_JS", "old"),
      File(UtilsName, "SERVER_JS", "utils"),
      File(CodigoName, "SERVER_JS", "antigo"),
      File(ManifestName, "JSON", "manifest"),
      File(PageName, "HTML", "page"),
      File(TempName, "SERVER_JS", "oldtemp") }

\* file lists with pairwise distinct names, of at most n files
FileLists(U, n) ==
    UNION { { s \in [1..k -> U] :
                \A a, b \in 1..k : a # b => s[a].name # s[b].name } :
            k \in 0..n }

\* source projects: with a Code file, without any, with a near-match only
SourceLists ==
    { << File(ManifestName, "JSON", "srcmanifest"), File(CodeName, "SERVER_JS", "new") >>,
      << File(ManifestName, "JSON", "srcmanifest") >>,
      << File(MyCodeName, "SERVER_JS", "mine"), File(ManifestName, "JSON", "srcmanifest") >> }

FileSet(files) == {files[k] : k \in 1..Len(files)}

----------------------------------------------------------------------------
(* Content Transfer Engine: the file-list computations *)

\* cli: updateScriptContent, the source file that is copied
sourceCodeFile(files) ==
    Find(files, {k \in 1..Len(files) :
                    \/ files[k].name = CodeName
                    \/ files[k].name = CodigoName
                    \/ Includes(files[k].name, CodeName)})

\* the existing list pushed as it is
updatedFilesUnchanged(existing, srcFile) == existing

\* cli: updateScriptContent, the replacement list
updatedFiles(existing, srcFile) ==
    [k \in 1..Len(existing) |->
        IF existing[k].name = CodeName \/ existing[k].name = CodigoName
           \/ existing[k].type = "SERVER_JS"
        THEN File(existing[k].name, existing[k].type, srcFile.source)
        ELSE existing[k]]

\* server: copyFunction, the source file that is copied
sourceFunctionFile(files) ==
    Find(files, {k \in 1..Len(files) :
                    files[k].name = CodeName /\ files[k].type = "SERVER_JS"})

\* a partial list: only the copied file is written
targetFilesPartial(existing, srcFile) ==
    << File(CodeName, "SERVER_JS", srcFile.source) >>

\* the existing Code.gs is not removed before the new one is added
targetFilesNoFilter(existing, srcFile) ==
    Append(existing, File(CodeName, "SERVER_JS", srcFile.source))

\* server: copyFunction, the replacement list
targetFiles(existing, srcFile) ==
    Append(SelectSeq(existing, LAMBDA f : f.name # CodeName),
           File(CodeName, "SERVER_JS", srcFile.source))

\* the pushed files added to the project's files of other names
contentAfterUpdateMerged(existing, files) ==
    SelectSeq(existing, LAMBDA f : \A k \in 1..Len(files) : files[k].name # f.name) \o files

\* projects.updateContent: the project's files become the pushed list
contentAfterUpdate(existing, files) == files

----------------------------------------------------------------------------
(* Locals of a per-target operation *)

NoExec == [success |-> FALSE, copiedCount |-> 0, buttons |-> <<>>, inserts |-> <<>>]

NoEnv == [tabFound |-> FALSE, insert |-> <<>>, assign |-> <<>>]

NoEntry == [scriptId |-> NoId, buttonImageIds |-> <<>>, coordinates |-> <<>>]

NoLoc ==
    [ target |-> NoId,       \* the target spreadsheet id
      sid |-> NoId,          \* the target script id
      ret |-> "none",        \* where control returns to
      result |-> "none",     \* "ok": returned, "throw": raised
      srcFile |-> NoFile,    \* the source file found
      fetchOk |-> FALSE,     \* the target's getContent returned
      fetched |-> <<>>,      \* the target file list as fetched
      pushed |-> FALSE,      \* updateContent was called
      pushOk |-> FALSE,      \* ... and returned
      files |-> <<>>,        \* the list given to updateContent
      entry |-> NoEntry,     \* copyButtonsFromSheet: targetData
      buttonData |-> <<>>,   \* copyButtonsFromSheet: the placements
      run |-> "none",        \* copyButtonsFromSheet: how scripts.run ended
      exec |-> NoExec,       \* copyButtonsFromSheet: executionResult
      discovered |-> FALSE,  \* cli: getScriptProjectId was called for the target
      env |-> NoEnv,         \* the generated procedure run on its own: the sheet's behaviour
      op |-> "none",         \* racing invocations: "fn" (copyFunction) or "btn" (copyButtonsFromSheet)
      validation |-> "none", \* validateAndTestScriptAccess on its own: "valid", "invalid"
      before |-> <<>> ]      \* history: the target project when the operation began

Call(api, ok) == [api |-> api, ok |-> ok]

NoHist == [runs |-> <<>>, targets |-> <<>>]

\* lines 658-661: the response object
NoResponse == [total |-> 0, successful |-> 0, failed |-> 0, details |-> <<>>]
NoResponses == [copyFunctions |-> NoResponse, copyButtons |-> NoResponse]

NoReq ==
    [fnPresent |-> FALSE, fnEnable |-> FALSE, fnTargets |-> <<>>,
     btnPresent |-> FALSE, btnEnable |-> FALSE, btnTargets |-> <<>>,
     buttonScript |-> FALSE, wellFormed |-> TRUE, sourceScriptId |-> FALSE]

\* how a call on script project sid may end: a project that does not exist is never found
Outcomes(sid) == IF sid \in DOMAIN proj THEN BOOLEAN ELSE {FALSE}

Return(result) ==
    /\ loc' = [loc EXCEPT !.result = result]
    /\ pc' = loc.ret

----------------------------------------------------------------------------
(* Manifest Reader (server): readScriptIds *)

\* a row of the master sheet: the id cell, the script id cell (trimmed, NoId
\* when empty), the image ids and the coordinate pairs of the two button cells
Row(id, scriptId, images, coords) ==
    [id |-> id, scriptId |-> scriptId, buttonImageIds |-> images, coordinates |-> coords]

\* a row as the Sheets API returns it: four cells, <<>> for a cell that is
\* empty or missing
RawRow(idCell, scriptCell, imagesCell, coordsCell) ==
    [id |-> idCell, scriptId |-> scriptCell, images |-> imagesCell, coords |-> coordsCell]

\* lines 154-166: the coordinate cell decoded into [col, row] pairs
decodeCoordinates(cell) == coordinatePairs(tokensOf(cell))

\* lines 151-166 (cli: 146-147): the cells of a row decoded
parseRow(raw) ==
    Row(raw.id, Trim(raw.scriptId), tokensOf(raw.images), decodeCoordinates(raw.coords))

parseRows(raws) == [k \in 1..Len(raws) |-> parseRow(raws[k])]

EmptyMap == [k \in {} |-> NoEntry]

\* a set that keeps the entry a key already has
MapSetKeepFirst(m, key, e) ==
    [k \in DOMAIN m \cup {key} |-> IF k \in DOMAIN m THEN m[k] ELSE e]

\* Map.prototype.set
MapSet(m, key, e) == [k \in DOMAIN m \cup {key} |-> IF k = key THEN e ELSE m[k]]

\* Map.prototype.get, NoEntry for undefined
MapGet(m, key) == IF key \in DOMAIN m THEN m[key] ELSE NoEntry

\* a row is kept whenever its spreadsheet id is present
RECURSIVE scriptIdMapOfAnyRow(_, _)
scriptIdMapOfAnyRow(rows, m) ==
    IF rows = <<>> THEN m
    ELSE LET r == Head(rows)
             spreadsheetId == extractSpreadsheetId(r.id)
         IN  scriptIdMapOfAnyRow(Tail(rows),
                 IF spreadsheetId # NoId
                 THEN MapSet(m, spreadsheetId,
                             [scriptId |-> r.scriptId,
                              buttonImageIds |-> r.buttonImageIds,
                              coordinates |-> r.coordinates])
                 ELSE m)

\* rows.forEach: a row is kept when both its spreadsheet id and its script id
\* are present; a later row with the same id replaces an earlier one
RECURSIVE scriptIdMapOf(_, _)
scriptIdMapOf(rows, m) ==
    IF rows = <<>> THEN m
    ELSE LET r == Head(rows)
             spreadsheetId == extractSpreadsheetId(r.id)
         IN  scriptIdMapOf(Tail(rows),
                 IF spreadsheetId # NoId /\ r.scriptId # NoId
                 THEN MapSet(m, spreadsheetId,
                             [scriptId |-> r.scriptId,
                              buttonImageIds |-> r.buttonImageIds,
                              coordinates |-> r.coordinates])
                 ELSE m)

readScriptIds(rows) == scriptIdMapOf(rows, EmptyMap)

\* how readScriptIds may end: both reads return; the metadata read raises; the
\* metadata lacks the sheet; the range read raises
ReadOutcomes == {"ok", "metaRaise", "sheetMissing", "rangeRaise"}

\* line 17
SHEET_NAME == "TVDE Users"

\* lines 129-146: the metadata read may raise; if it returns, the sheet is
\* looked for in it, and only when it is there is the range read, which may raise
readOutcomes(names) ==
    IF SHEET_NAME \in names THEN {"ok", "metaRaise", "rangeRaise"}
    ELSE {"metaRaise", "sheetMissing"}

\* the range is read although the sheet is not in the metadata
readCallsRangeAnyway(outcome) ==
    CASE outcome = "ok" -> << Call("sheets.get", TRUE), Call("values.get", TRUE) >>
      [] outcome = "metaRaise" -> << Call("sheets.get", FALSE) >>
      [] outcome = "sheetMissing" -> << Call("sheets.get", TRUE), Call("values.get", TRUE) >>
      [] outcome = "rangeRaise" -> << Call("sheets.get", TRUE), Call("values.get", FALSE) >>

\* the remote calls readScriptIds issues, in order
\* a failed read taken for a map all the same
readReturnedAnyway(outcome) == TRUE

\* lines 129-183: readScriptIds returns its map only when both reads returned
\* and the sheet was found; otherwise it raises
readReturned(outcome) == outcome = "ok"

readCalls(outcome) ==
    CASE outcome = "ok" -> << Call("sheets.get", TRUE), Call("values.get", TRUE) >>
      [] outcome = "metaRaise" -> << Call("sheets.get", FALSE) >>
      [] outcome = "sheetMissing" -> << Call("sheets.get", TRUE) >>
      [] outcome = "rangeRaise" -> << Call("sheets.get", TRUE), Call("values.get", FALSE) >>

----------------------------------------------------------------------------
(* Remote Asset-Placement Synthesizer: the generated procedure *)

\* column and row exchanged
buttonDataOfSwapped(buttonImageIds, coordinates) ==
    [k \in 1..Len(buttonImageIds) |->
        [imageId |-> buttonImageIds[k],
         col |-> coordinates[k][2],
         row |-> coordinates[k][1]]]

\* lines 337-341, the argument of JSON.stringify: one placement per image id,
\* with the coordinates of the same position
buttonDataOf(buttonImageIds, coordinates) ==
    [k \in 1..Len(buttonImageIds) |->
        [imageId |-> buttonImageIds[k],
         col |-> coordinates[k][1],
         row |-> coordinates[k][2]]]

\* JSON text as its tokens: punctuation, strings, numbers
Punct(c) == [kind |-> "punct", str |-> c, num |-> 0]
Str(x) == [kind |-> "string", str |-> x, num |-> 0]
Num(n) == [kind |-> "number", str |-> "", num |-> n]

\* JSON.stringify of one placement
stringifyObject(b) ==
    << Punct("{"), Str("imageId"), Punct(":"), Str(b.imageId), Punct(","),
       Str("col"), Punct(":"), Num(b.col), Punct(","),
       Str("row"), Punct(":"), Num(b.row), Punct("}") >>

RECURSIVE stringifyItems(_)
stringifyItems(buttons) ==
    IF buttons = <<>> THEN <<>>
    ELSE stringifyObject(Head(buttons))
           \o (IF Len(buttons) > 1 THEN << Punct(",") >> ELSE <<>>)
           \o stringifyItems(Tail(buttons))

\* JSON.stringify of the placement list
JSONstringify(buttons) == << Punct("[") >> \o stringifyItems(buttons) \o << Punct("]") >>

\* the value of the property named key in the object literal toks
Member(toks, key) ==
    LET p == CHOOSE q \in 2..(Len(toks) - 2) :
                /\ toks[q - 1] \in { Punct("{"), Punct(",") }
                /\ toks[q] = Str(key)
                /\ toks[q + 1] = Punct(":")
    IN  toks[p + 2]

\* the object literals of an array literal, its brackets removed
RECURSIVE evalItems(_)
evalItems(toks) ==
    IF toks = <<>> THEN <<>>
    ELSE LET e == CHOOSE q \in 1..Len(toks) :
                     /\ toks[q] = Punct("}")
                     /\ \A r \in 1..(q - 1) : toks[r] # Punct("}")
             obj == SubSeq(toks, 1, e)
             rest == IF e < Len(toks) THEN SubSeq(toks, e + 2, Len(toks)) ELSE <<>>
         IN  << [imageId |-> Member(obj, "imageId").str,
                 col |-> Member(obj, "col").num,
                 row |-> Member(obj, "row").num] >> \o evalItems(rest)

\* line 367, var buttons = ${buttonData}: the text evaluated as an array literal
buttonsLiteral(text) == evalItems(SubSeq(text, 2, Len(text) - 1))

\* the placement list the generated procedure holds for a manifest entry
embeddedButtons(targetData) ==
    buttonsLiteral(JSONstringify(buttonDataOf(targetData.buttonImageIds, targetData.coordinates)))

\* what the target spreadsheet does when the procedure runs: whether the sheet
\* tab is found, and for each placement whether insertImage and assignScript return
Envs(n) ==
    [tabFound : BOOLEAN, insert : [1..n -> BOOLEAN], assign : [1..n -> BOOLEAN]]

\* the for loop of the procedure, from position st.i on; a failure is caught
\* inside the loop body and recorded
RECURSIVE insertLoop(_, _, _, _)
insertLoop(buttons, env, script, st) ==
    IF st.i > Len(buttons) THEN st
    ELSE LET b == buttons[st.i]
             ok == env.insert[st.i] /\ (script => env.assign[st.i])
         IN  insertLoop(buttons, env, script,
                 [i |-> st.i + 1,
                  copiedCount |-> IF ok THEN st.copiedCount + 1 ELSE st.copiedCount,
                  buttonDetails |-> Append(st.buttonDetails,
                      [position |-> <<b.col, b.row>>, imageId |-> b.imageId,
                       error |-> ~ok]),
                  inserts |-> Append(st.inserts, b.imageId)])

\* the same loop with the catch around it: the first failure ends the loop
RECURSIVE insertLoopAbort(_, _, _, _)
insertLoopAbort(buttons, env, script, st) ==
    IF st.i > Len(buttons) THEN st
    ELSE LET b == buttons[st.i]
             ok == env.insert[st.i] /\ (script => env.assign[st.i])
             next == [i |-> st.i + 1,
                      copiedCount |-> IF ok THEN st.copiedCount + 1 ELSE st.copiedCount,
                      buttonDetails |-> Append(st.buttonDetails,
                          [position |-> <<b.col, b.row>>, imageId |-> b.imageId,
                           error |-> ~ok]),
                      inserts |-> Append(st.inserts, b.imageId)]
         IN  IF ok THEN insertLoopAbort(buttons, env, script, next) ELSE next

LoopStart == [i |-> 1, copiedCount |-> 0, buttonDetails |-> <<>>, inserts |-> <<>>]

copyButtonsWithFunctionsAbort(buttons, env, script) ==
    IF ~env.tabFound THEN NoExec
    ELSE LET st == insertLoopAbort(buttons, env, script, LoopStart)
         IN  [success |-> TRUE, copiedCount |-> st.copiedCount,
              buttons |-> st.buttonDetails, inserts |-> st.inserts]

\* copyButtonsWithFunctions: {success: false} when the sheet tab is not found,
\* else the count and the per-placement details
copyButtonsWithFunctions(buttons, env, script) ==
    IF ~env.tabFound THEN NoExec
    ELSE LET st == insertLoop(buttons, env, script, LoopStart)
         IN  [success |-> TRUE, copiedCount |-> st.copiedCount,
              buttons |-> st.buttonDetails, inserts |-> st.inserts]

----------------------------------------------------------------------------
(* server: copyFunction *)

\* the project's files are obtained although the read raised
existingFilesAnyway(ok, sid) == IF sid \in DOMAIN proj THEN proj[sid] ELSE <<>>

\* lines 203-210 (and 451-458): the files of the target when the read
\* returns, the initial empty list when it raises
existingFiles(ok, sid) == IF ok THEN proj[sid] ELSE <<>>

\* lines 194-200: read the source project, find Code.gs
CfReadSource ==
    /\ pc = "cf_src"
    /\ \E ok \in BOOLEAN :
         /\ calls' = Append(calls, Call("getContent:source", ok))
         /\ IF ok /\ sourceFunctionFile(source) # NoFile
            THEN /\ loc' = [loc EXCEPT !.srcFile = sourceFunctionFile(source)]
                 /\ pc' = "cf_tgt"
            ELSE Return("throw")
    /\ UNCHANGED <<prog, proj, remoteRO, req, i, sourceContent, scriptIdMap,
                   targetSpreadsheets, response, sent, hist>>

\* lines 203-210: read the target project; a failure is swallowed
CfReadTarget ==
    /\ pc = "cf_tgt"
    /\ \E ok \in Outcomes(loc.sid) :
         /\ calls' = Append(calls, Call("getContent:target", ok))
         /\ loc' = [loc EXCEPT !.fetchOk = ok, !.fetched = existingFiles(ok, loc.sid)]
    /\ pc' = "cf_push"
    /\ UNCHANGED <<prog, proj, remoteRO, req, i, sourceContent, scriptIdMap,
                   targetSpreadsheets, response, sent, hist>>

\* lines 212-233: build the list and replace the target's content
CfPush ==
    /\ pc = "cf_push"
    /\ LET files == targetFiles(loc.fetched, loc.srcFile)
       IN  \E ok \in Outcomes(loc.sid) :
             /\ calls' = Append(calls, Call("updateContent", ok))
             /\ loc' = [loc EXCEPT !.pushed = TRUE, !.pushOk = ok, !.files = files,
                                   !.result = IF ok THEN "ok" ELSE "throw"]
             /\ proj' = IF ok THEN [proj EXCEPT ![loc.sid] = contentAfterUpdate(@, files)] ELSE proj
    /\ pc' = loc.ret
    /\ UNCHANGED <<prog, remoteRO, req, i, sourceContent, scriptIdMap,
                   targetSpreadsheets, response, sent, hist>>

----------------------------------------------------------------------------
(* server: copyButtonsFromSheet *)

\* validateAndTestScriptAccess with the probe's outcome: the probe is issued
\* only for an id that passes the format checks
validationCallsAlways(scriptId, probeOk) == << Call("projects.get", probeOk) >>

validationCalls(scriptId, probeOk) ==
    IF validFormat(scriptId) THEN << Call("projects.get", probeOk) >> ELSE <<>>

\* every script id taken for valid
validationValidAlways(scriptId, probeOk) == TRUE

validationValid(scriptId, probeOk) == validFormat(scriptId) /\ probeOk

\* the mismatch test left out
preconditionErrorNoMismatch(targetData) ==
    IF Len(targetData.buttonImageIds) = 0 THEN "No button image IDs"
    ELSE IF Len(targetData.coordinates) = 0 THEN "No coordinates"
    ELSE "none"

\* lines 319-329: the checks made before the procedure is generated
preconditionError(targetData) ==
    IF Len(targetData.buttonImageIds) = 0 THEN "No button image IDs"
    ELSE IF Len(targetData.coordinates) = 0 THEN "No coordinates"
    ELSE IF Len(targetData.buttonImageIds) # Len(targetData.coordinates) THEN "Mismatch"
    ELSE "none"

\* lines 279-284: read the master sheet, look the target up
CbRead ==
    /\ pc = "cb_read"
    /\ \E outcome \in readOutcomes(sheetNames) :
         LET targetData == MapGet(readScriptIds(sheetRows), loc.target)
         IN  /\ calls' = calls \o readCalls(outcome)
             /\ IF readReturned(outcome) /\ targetData.scriptId # NoId
                THEN /\ loc' = [loc EXCEPT !.entry = targetData,
                                           !.sid = targetData.scriptId,
                                           !.before = IF targetData.scriptId \in DOMAIN proj
                                                      THEN proj[targetData.scriptId]
                                                      ELSE <<>>]
                     /\ pc' = "cb_validate"
                ELSE Return("throw")
    /\ UNCHANGED <<prog, proj, remoteRO, req, i, sourceContent, scriptIdMap,
                   targetSpreadsheets, response, sent, hist>>

\* lines 286-341: validate the script id, check the preconditions, build buttonData
CbValidate ==
    /\ pc = "cb_validate"
    /\ \E probeOk \in Outcomes(loc.sid) :
         /\ calls' = calls \o validationCalls(loc.sid, probeOk)
         /\ IF validationValid(loc.sid, probeOk) /\ preconditionError(loc.entry) = "none"
            THEN /\ loc' = [loc EXCEPT !.buttonData = embeddedButtons(loc.entry)]
                 /\ pc' = "cb_tgt"
            ELSE Return("throw")
    /\ UNCHANGED <<prog, proj, remoteRO, req, i, sourceContent, scriptIdMap,
                   targetSpreadsheets, response, sent, hist>>

\* lines 450-458: read the target project; a failure is swallowed
CbReadTarget ==
    /\ pc = "cb_tgt"
    /\ \E ok \in Outcomes(loc.sid) :
         /\ calls' = Append(calls, Call("getContent:target", ok))
         /\ loc' = [loc EXCEPT !.fetchOk = ok, !.fetched = existingFiles(ok, loc.sid)]
    /\ pc' = "cb_push"
    /\ UNCHANGED <<prog, proj, remoteRO, req, i, sourceContent, scriptIdMap,
                   targetSpreadsheets, response, sent, hist>>

\* the file left by a prior run is kept and a second one added
filesWithTempNoFilter(existing) ==
    Append(existing, File(TempName, "SERVER_JS", "generated"))

\* lines 458-466: the list with the generated procedure
filesWithTemp(existing) ==
    Append(SelectSeq(existing, LAMBDA f : f.name # TempName),
           File(TempName, "SERVER_JS", "generated"))

\* lines 468-475: replace the target's content
CbPush ==
    /\ pc = "cb_push"
    /\ LET files == filesWithTemp(loc.fetched)
       IN  \E ok \in Outcomes(loc.sid) :
             /\ calls' = Append(calls, Call("updateContent", ok))
             /\ proj' = IF ok THEN [proj EXCEPT ![loc.sid] = contentAfterUpdate(@, files)] ELSE proj
             /\ IF ok
                THEN /\ loc' = [loc EXCEPT !.pushed = TRUE, !.pushOk = TRUE, !.files = files]
                     /\ pc' = "cb_run"
                ELSE /\ loc' = [loc EXCEPT !.pushed = TRUE, !.files = files,
                                           !.result = "throw"]
                     /\ pc' = loc.ret
    /\ UNCHANGED <<prog, remoteRO, req, i, sourceContent, scriptIdMap,
                   targetSpreadsheets, response, sent, hist>>

\* how scripts.run may end: the call raises; the response carries an error
\* object; the response carries no result; the procedure's result is returned
RunOutcomes == {"transport", "errorObject", "noResult", "returned"}

\* only a raised call fails the operation: the response's error object is not looked at
runThrowsTransportOnly(outcome) == outcome = "transport"

\* lines 485-502, 521-534: the outcomes that make copyButtonsFromSheet raise
runThrows(outcome) == outcome \in {"transport", "errorObject"}

\* line 505: response?.result || { success: true }
executionResult(outcome, result) ==
    IF outcome = "returned" THEN result
    ELSE [success |-> TRUE, copiedCount |-> 0, buttons |-> <<>>, inserts |-> <<>>]

\* lines 477-549: run the procedure, return its result
CbRun ==
    /\ pc = "cb_run"
    /\ \E outcome \in RunOutcomes :
       \E env \in (IF outcome = "returned" THEN Envs(Len(loc.buttonData)) ELSE {NoEnv}) :
         /\ calls' = Append(calls, Call("scripts.run", outcome # "transport"))
         /\ IF runThrows(outcome)
            THEN loc' = [loc EXCEPT !.run = outcome, !.result = "throw"]
            ELSE loc' = [loc EXCEPT !.run = outcome, !.result = "ok",
                            !.exec = executionResult(outcome,
                                copyButtonsWithFunctions(loc.buttonData, env,
                                                         req.buttonScript))]
    /\ pc' = loc.ret
    /\ UNCHANGED <<prog, proj, remoteRO, req, i, sourceContent, scriptIdMap,
                   targetSpreadsheets, response, sent, hist>>

----------------------------------------------------------------------------
(* cli: getScriptContent and updateScriptContent *)

\* getScriptContent: returns the project's content or raises
GetScriptContent(next, onThrow) ==
    /\ \E ok \in BOOLEAN :
         /\ calls' = Append(calls, Call("getContent:source", ok))
         /\ IF ok
            THEN sourceContent' = source /\ pc' = next
            ELSE sourceContent' = sourceContent /\ pc' = onThrow
    /\ UNCHANGED <<prog, proj, remoteRO, req, i, scriptIdMap,
                   targetSpreadsheets, response, sent, hist>>

\* lines 211-214: read the target project; a failure is rethrown
UsReadTarget ==
    /\ pc = "us_tgt"
    /\ \E ok \in Outcomes(loc.sid) :
         /\ calls' = Append(calls, Call("getContent:target", ok))
         /\ IF ok
            THEN /\ loc' = [loc EXCEPT !.fetchOk = TRUE, !.fetched = proj[loc.sid]]
                 /\ pc' = "us_push"
            ELSE Return("throw")
    /\ UNCHANGED <<prog, proj, remoteRO, req, i, sourceContent, scriptIdMap,
                   targetSpreadsheets, response, sent, hist>>

\* lines 216-252: find the source file, build the list, replace the content
UsPush ==
    /\ pc = "us_push"
    /\ LET srcFile == sourceCodeFile(sourceContent)
           files == updatedFiles(loc.fetched, srcFile)
       IN  IF srcFile = NoFile
           THEN /\ loc' = [loc EXCEPT !.result = "throw"]
                /\ UNCHANGED <<proj, calls>>
           ELSE \E ok \in Outcomes(loc.sid) :
                  /\ calls' = Append(calls, Call("updateContent", ok))
                  /\ loc' = [loc EXCEPT !.srcFile = srcFile, !.pushed = TRUE,
                                        !.pushOk = ok, !.files = files,
                                        !.result = IF ok THEN "ok" ELSE "throw"]
                  /\ proj' = IF ok THEN [proj EXCEPT ![loc.sid] = contentAfterUpdate(@, files)] ELSE proj
    /\ pc' = loc.ret
    /\ UNCHANGED <<prog, remoteRO, req, i, sourceContent, scriptIdMap,
                   targetSpreadsheets, response, sent, hist>>

----------------------------------------------------------------------------
(* Batch data: the master sheet, the requests, the summary *)

SheetA == <<"A">>
SheetB == <<"B">>
SheetC == <<"C">>
SheetD == <<"D">>

BadScriptId == <<"b", "a", "d">>

\* the master sheet read by the server: A is written as a URL and has as many
\* images as coordinates; B has one image and two coordinates; C has no script
\* id; D has a script id that is too short to be one
MasterRows ==
    << Row(UrlPattern1 \o SheetA \o <<"/", "e", "d", "i", "t">>, S1,
           <<"imgA">>, << <<2, 5>> >>),
       Row(SheetB, S2, <<"imgA">>, << <<2, 5>>, <<1, 2>> >>),
       Row(SheetC, NoId, <<"imgA">>, << <<2, 5>> >>),
       Row(SheetD, BadScriptId, <<"imgA">>, << <<2, 5>> >>) >>

\* target references a request may carry
TargetRefs == { UrlPattern3 \o SheetA, SheetB, SheetC, SheetD }

\* the script projects that exist when a batch begins
InitProj ==
    [s \in ScriptIds |->
        IF s = S1
        THEN << File(ManifestName, "JSON", "manifest"),
                File(CodeName, "SERVER_JS", "old"),
                File(TempName, "SERVER_JS", "oldtemp") >>
        ELSE << File(UtilsName, "SERVER_JS", "utils") >>]

MasterSheet == <<"M">>

\* Drive: spreadsheet id -> ids of the script files listed under it
BoundScripts == [s \in {SheetC, MasterSheet} |-> IF s = SheetC THEN <<S2>> ELSE <<S1>>]

DriveFiles(d, spreadsheetId) ==
    IF spreadsheetId \in DOMAIN d THEN d[spreadsheetId] ELSE <<>>

Seqs(S, n) == UNION {[1..k -> S] : k \in 0..n}

\* request bodies: copyFunctions and copyButtons objects, each present or not,
\* enabled or not; one body with an ill-typed field
Requests ==
    { r \in [fnPresent : BOOLEAN, fnEnable : BOOLEAN, fnTargets : Seqs(TargetRefs, MaxTargets),
             btnPresent : BOOLEAN, btnEnable : BOOLEAN,
             btnTargets : Seqs(TargetRefs, MaxBtnTargets),
             buttonScript : BOOLEAN, wellFormed : BOOLEAN, sourceScriptId : {FALSE}] :
        /\ r.fnEnable => r.fnPresent
        /\ r.btnEnable => r.btnPresent
        /\ ~r.fnEnable => r.fnTargets = <<>>
        /\ ~r.btnEnable => r.btnTargets = <<>>
        /\ r.buttonScript => Len(r.btnTargets) = 1
        /\ Len(r.fnTargets) + Len(r.btnTargets) <= MaxTargets
        /\ ~r.wellFormed => r.fnPresent /\ ~r.fnEnable /\ ~r.btnPresent }

\* an element of response.<operation>.details; a field the code does not set
\* is NoId / "undefined" / 0
Detail(spreadsheetId, status, scriptId, error, copiedCount) ==
    [spreadsheetId |-> spreadsheetId, status |-> status, scriptId |-> scriptId,
     error |-> error, copiedCount |-> copiedCount]

\* history of one target of a batch: what was recorded for it and what its
\* processing did
TargetHist(op, ref, status, noScriptId, cs, l) ==
    [op |-> op, ref |-> ref, status |-> status, noScriptId |-> noScriptId,
     calls |-> cs, result |-> l.result, run |-> l.run, exec |-> l.exec,
     discovered |-> l.discovered, pushOk |-> l.pushOk, buttonData |-> l.buttonData]

\* the loop stops at the first failure
nextIndexBreak(idx, n, failed) == IF failed THEN n ELSE idx + 1

\* the loop passes over the next target
nextIndexSkip(idx, n, failed) == idx + 2

\* for (let i = 0; i < n; i++): the index after an iteration, failed or not
nextIndex(idx, n, failed) == idx + 1

----------------------------------------------------------------------------
(* server: app.post('/') *)

\* lines 597-656: validate the body, authorize
PostBegin ==
    /\ pc = "post"
    /\ IF \/ ~req.fnPresent /\ ~req.btnPresent
          \/ ~req.wellFormed
          \/ req.fnEnable /\ Len(req.fnTargets) = 0
          \/ req.btnEnable /\ Len(req.btnTargets) = 0
       THEN /\ sent' = Append(sent, "400")
            /\ pc' = "done"
       ELSE \E authOk \in BOOLEAN :
              IF authOk
              THEN sent' = sent /\ pc' = "fn"
              ELSE sent' = Append(sent, "401") /\ pc' = "done"
    /\ UNCHANGED <<prog, proj, remoteRO, req, i, loc, sourceContent, scriptIdMap,
                   targetSpreadsheets, response, calls, hist>>

\* line 703: copyFunctions is not enabled
FnDisabled ==
    /\ pc = "fn"
    /\ ~req.fnEnable
    /\ pc' = "btn"
    /\ UNCHANGED <<prog, proj, remoteRO, req, i, loc, sourceContent, scriptIdMap,
                   targetSpreadsheets, response, sent, calls, hist>>

\* lines 664-677: read the script ids; when the read raises, answer 500
FnReadScriptIds ==
    /\ pc = "fn"
    /\ req.fnEnable
    /\ \E outcome \in readOutcomes(sheetNames) :
         /\ calls' = readCalls(outcome)
         /\ IF readReturned(outcome)
            THEN /\ scriptIdMap' = readScriptIds(sheetRows)
                 /\ response' = [response EXCEPT
                        !.copyFunctions.total = Len(req.fnTargets)]
                 /\ sent' = sent
                 /\ pc' = "fn_loop"
            ELSE /\ scriptIdMap' = scriptIdMap
                 /\ response' = [response EXCEPT
                        !.copyFunctions.total = Len(req.fnTargets),
                        !.copyFunctions.failed = Len(req.fnTargets),
                        !.copyFunctions.details =
                            Append(@, Detail(NoId, "undefined", NoId,
                                             "Failed to read script IDs", 0))]
                 /\ sent' = Append(sent, "500")
                 /\ pc' = "done"
    /\ i' = 0
    /\ UNCHANGED <<prog, proj, remoteRO, req, loc, sourceContent,
                   targetSpreadsheets, hist>>

\* line 679: the loop is over
FnLoopEnd ==
    /\ pc = "fn_loop"
    /\ i >= Len(req.fnTargets)
    /\ pc' = "btn"
    /\ UNCHANGED <<prog, proj, remoteRO, req, i, loc, sourceContent, scriptIdMap,
                   targetSpreadsheets, response, sent, calls, hist>>

\* lines 680-685, 694-701: the target has no script id in the map
FnNoScriptId ==
    /\ pc = "fn_loop"
    /\ i < Len(req.fnTargets)
    /\ LET targetSpreadsheetId == extractSpreadsheetId(req.fnTargets[i + 1])
           targetData == MapGet(scriptIdMap, targetSpreadsheetId)
       IN  /\ targetData.scriptId = NoId
           /\ response' = [response EXCEPT
                  !.copyFunctions.failed = @ + 1,
                  !.copyFunctions.details =
                      Append(@, Detail(targetSpreadsheetId, "failed", NoId,
                                       "No script ID found", 0))]
           /\ hist' = [hist EXCEPT !.targets =
                  Append(@, TargetHist("fn", req.fnTargets[i + 1], "failed", TRUE,
                                       <<>>, NoLoc))]
    /\ i' = nextIndex(i, Len(req.fnTargets), TRUE)
    /\ calls' = <<>>
    /\ UNCHANGED <<prog, proj, remoteRO, req, pc, loc, sourceContent, scriptIdMap,
                   targetSpreadsheets, sent>>

\* lines 680-687: call copyFunction for the target
FnCall ==
    /\ pc = "fn_loop"
    /\ i < Len(req.fnTargets)
    /\ LET targetSpreadsheetId == extractSpreadsheetId(req.fnTargets[i + 1])
           targetData == MapGet(scriptIdMap, targetSpreadsheetId)
       IN  /\ targetData.scriptId # NoId
           /\ loc' = [NoLoc EXCEPT !.target = targetSpreadsheetId,
                                   !.sid = targetData.scriptId,
                                   !.ret = "fn_record",
                                   !.before = IF targetData.scriptId \in DOMAIN proj
                                              THEN proj[targetData.scriptId] ELSE <<>>]
    /\ calls' = <<>>
    /\ pc' = "cf_src"
    /\ UNCHANGED <<prog, proj, remoteRO, req, i, sourceContent, scriptIdMap,
                   targetSpreadsheets, response, sent, hist>>

\* lines 688-701: record the target's outcome
FnRecord ==
    /\ pc = "fn_record"
    /\ LET ok == loc.result = "ok"
       IN  /\ response' = [response EXCEPT
                  !.copyFunctions.successful = IF ok THEN @ + 1 ELSE @,
                  !.copyFunctions.failed = IF ok THEN @ ELSE @ + 1,
                  !.copyFunctions.details =
                      Append(@, IF ok
                                THEN Detail(loc.target, "success", loc.sid, "none", 0)
                                ELSE Detail(loc.target, "failed", NoId, "copyFunction", 0))]
           /\ hist' = [hist EXCEPT !.targets =
                  Append(@, TargetHist("fn", req.fnTargets[i + 1],
                                       IF ok THEN "success" ELSE "failed", FALSE,
                                       calls, loc))]
           /\ i' = nextIndex(i, Len(req.fnTargets), ~ok)
    /\ pc' = "fn_loop"
    /\ UNCHANGED <<prog, proj, remoteRO, req, loc, sourceContent, scriptIdMap,
                   targetSpreadsheets, sent, calls>>

\* line 744: copyButtons is not enabled
BtnDisabled ==
    /\ pc = "btn"
    /\ ~req.btnEnable
    /\ pc' = "respond"
    /\ UNCHANGED <<prog, proj, remoteRO, req, i, loc, sourceContent, scriptIdMap,
                   targetSpreadsheets, response, sent, calls, hist>>

\* lines 708-710: begin the copyButtons loop
BtnBegin ==
    /\ pc = "btn"
    /\ req.btnEnable
    /\ response' = [response EXCEPT !.copyButtons.total = Len(req.btnTargets)]
    /\ i' = 0
    /\ pc' = "btn_loop"
    /\ UNCHANGED <<prog, proj, remoteRO, req, loc, sourceContent, scriptIdMap,
                   targetSpreadsheets, sent, calls, hist>>

\* line 712: the loop is over
BtnLoopEnd ==
    /\ pc = "btn_loop"
    /\ i >= Len(req.btnTargets)
    /\ pc' = "respond"
    /\ UNCHANGED <<prog, proj, remoteRO, req, i, loc, sourceContent, scriptIdMap,
                   targetSpreadsheets, response, sent, calls, hist>>

\* lines 713-723: call copyButtonsFromSheet for the target
BtnCall ==
    /\ pc = "btn_loop"
    /\ i < Len(req.btnTargets)
    /\ loc' = [NoLoc EXCEPT !.target = extractSpreadsheetId(req.btnTargets[i + 1]),
                            !.ret = "btn_record"]
    /\ calls' = <<>>
    /\ pc' = "cb_read"
    /\ UNCHANGED <<prog, proj, remoteRO, req, i, sourceContent, scriptIdMap,
                   targetSpreadsheets, response, sent, hist>>

\* lines 724-741: record the target's outcome
BtnRecord ==
    /\ pc = "btn_record"
    /\ LET ok == loc.result = "ok"
       IN  /\ response' = [response EXCEPT
                  !.copyButtons.successful = IF ok THEN @ + 1 ELSE @,
                  !.copyButtons.failed = IF ok THEN @ ELSE @ + 1,
                  !.copyButtons.details =
                      Append(@, IF ok
                                THEN Detail(loc.target, "success", loc.sid, "none",
                                            loc.exec.copiedCount)
                                ELSE Detail(loc.target, "failed", NoId, "copyButtons", 0))]
           /\ hist' = [hist EXCEPT !.targets =
                  Append(@, TargetHist("btn", req.btnTargets[i + 1],
                                       IF ok THEN "success" ELSE "failed", FALSE,
                                       calls, loc))]
           /\ i' = nextIndex(i, Len(req.btnTargets), ~ok)
    /\ pc' = "btn_loop"
    /\ UNCHANGED <<prog, proj, remoteRO, req, loc, sourceContent, scriptIdMap,
                   targetSpreadsheets, sent, calls>>

\* line 747: answer 200 with the summary
Respond ==
    /\ pc = "respond"
    /\ sent' = Append(sent, "200")
    /\ pc' = "done"
    /\ UNCHANGED <<prog, proj, remoteRO, req, i, loc, sourceContent, scriptIdMap,
                   targetSpreadsheets, response, calls, hist>>

ServerInit ==
    /\ prog = "server"
    /\ proj = InitProj
    /\ source \in SourceLists
    /\ sheetRows = MasterRows
    /\ sheetNames \in {{SHEET_NAME}, {"Sheet1"}}
    /\ drive = BoundScripts
    /\ req \in Requests
    /\ pc = "post"
    /\ i = 0
    /\ loc = NoLoc
    /\ sourceContent = <<>>
    /\ scriptIdMap = EmptyMap
    /\ targetSpreadsheets = <<>>
    /\ response = NoResponses
    /\ sent = <<>>
    /\ calls = <<>>
    /\ hist = NoHist

ServerNext ==
    \/ PostBegin
    \/ FnDisabled
    \/ FnReadScriptIds
    \/ FnLoopEnd
    \/ FnNoScriptId
    \/ FnCall
    \/ CfReadSource
    \/ CfReadTarget
    \/ CfPush
    \/ FnRecord
    \/ BtnDisabled
    \/ BtnBegin
    \/ BtnLoopEnd
    \/ BtnCall
    \/ CbRead
    \/ CbValidate
    \/ CbReadTarget
    \/ CbPush
    \/ CbRun
    \/ BtnRecord
    \/ Respond

----------------------------------------------------------------------------
(* cli: readSheetIds, getScriptProjectId, main *)

\* readSheetIds: the rows with a non-empty spreadsheet id
readSheetIds(rows) ==
    SelectSeq([k \in 1..Len(rows) |->
                  [spreadsheetId |-> extractSpreadsheetId(rows[k].id),
                   scriptId |-> rows[k].scriptId]],
              LAMBDA item : Len(item.spreadsheetId) > 0)

\* rows of the sheet read by the cli: with a script id; without one, a script
\* project being bound to the spreadsheet; without one and none bound; with a
\* blank id cell
CliRowKinds ==
    { Row(SheetA, S1, <<>>, <<>>),
      Row(UrlPattern2 \o SheetC, NoId, <<>>, <<>>),
      Row(SheetD, NoId, <<>>, <<>>),
      Row(<<" ">>, S2, <<>>, <<>>) }

\* how getScriptProjectId may end inside its try block: both calls return; the
\* metadata read raises; the file listing raises
DiscoveryOutcomes == {"returned", "metaRaise", "listRaise"}

\* the remote calls getScriptProjectId issues, in order
discoveryCalls(outcome) ==
    CASE outcome = "returned" -> << Call("sheets.get", TRUE), Call("files.list", TRUE) >>
      [] outcome = "metaRaise" -> << Call("sheets.get", FALSE) >>
      [] outcome = "listRaise" -> << Call("sheets.get", TRUE), Call("files.list", FALSE) >>

\* getScriptProjectId: the first listed file's id; null (NoId) when nothing is
\* listed or when a call raised
getScriptProjectId(spreadsheetId, outcome) ==
    IF outcome = "returned" /\ Len(DriveFiles(drive, spreadsheetId)) > 0
    THEN DriveFiles(drive, spreadsheetId)[1]
    ELSE NoId

\* discovery is never attempted
needsDiscoveryNever(scriptId) == FALSE

\* line 328: if (!targetScriptProjectId)
needsDiscovery(scriptId) == scriptId = NoId

\* lines 259-279: check the configuration, authorize, read the sheet ids
MainBegin ==
    /\ pc = "main"
    /\ IF ~req.wellFormed
       THEN /\ pc' = "m_fatal"
            /\ UNCHANGED <<targetSpreadsheets, calls>>
       ELSE \E authOk \in BOOLEAN, readOk \in BOOLEAN :
              IF ~authOk
              THEN /\ pc' = "m_fatal"
                   /\ UNCHANGED <<targetSpreadsheets, calls>>
              ELSE /\ calls' = << Call("values.get", readOk) >>
                   /\ IF readOk
                      THEN /\ targetSpreadsheets' = readSheetIds(sheetRows)
                           /\ pc' = IF Len(readSheetIds(sheetRows)) = 0
                                    THEN "done" ELSE "m_source"
                      ELSE /\ targetSpreadsheets' = targetSpreadsheets
                           /\ pc' = "m_fatal"
    /\ UNCHANGED <<prog, proj, remoteRO, req, i, loc, sourceContent, scriptIdMap,
                   response, sent, hist>>

\* lines 288-310: the source script project's id, configured or discovered
MainSourceId ==
    /\ pc = "m_source"
    /\ IF req.sourceScriptId
       THEN /\ calls' = <<>>
            /\ pc' = "m_content"
       ELSE \E outcome \in DiscoveryOutcomes :
              /\ calls' = discoveryCalls(outcome)
              /\ pc' = IF getScriptProjectId(MasterSheet, outcome) = NoId
                       THEN "m_fatal" ELSE "m_content"
    /\ UNCHANGED <<prog, proj, remoteRO, req, i, loc, sourceContent, scriptIdMap,
                   targetSpreadsheets, response, sent, hist>>

\* lines 312-315: read the source content once
MainReadSource ==
    /\ pc = "m_content"
    /\ loc' = loc
    /\ GetScriptContent("m_loop", "m_fatal")

\* lines 264, 307, 362-365: process.exit(1)
MainFatal ==
    /\ pc = "m_fatal"
    /\ sent' = Append(sent, "exit1")
    /\ pc' = "done"
    /\ UNCHANGED <<prog, proj, remoteRO, req, i, loc, sourceContent, scriptIdMap,
                   targetSpreadsheets, response, calls, hist>>

\* lines 321-342: the target's script id, from the sheet or discovered
MainTarget ==
    /\ pc = "m_loop"
    /\ i < Len(targetSpreadsheets)
    /\ LET target == targetSpreadsheets[i + 1]
           discover == needsDiscovery(target.scriptId)
       IN  \E outcome \in (IF discover THEN DiscoveryOutcomes ELSE {"none"}) :
             LET targetScriptProjectId ==
                     IF discover THEN getScriptProjectId(target.spreadsheetId, outcome)
                     ELSE target.scriptId
                 cs == IF discover THEN discoveryCalls(outcome) ELSE <<>>
             IN  /\ calls' = cs
                 /\ IF targetScriptProjectId = NoId
                    THEN /\ response' = [response EXCEPT !.copyFunctions.failed = @ + 1]
                         /\ hist' = [hist EXCEPT !.targets =
                                Append(@, TargetHist("cli", target.spreadsheetId, "failed",
                                           TRUE, cs, [NoLoc EXCEPT !.discovered = discover]))]
                         /\ i' = nextIndex(i, Len(targetSpreadsheets), TRUE)
                         /\ UNCHANGED <<pc, loc>>
                    ELSE /\ loc' = [NoLoc EXCEPT !.target = target.spreadsheetId,
                                                 !.sid = targetScriptProjectId,
                                                 !.ret = "m_record",
                                                 !.discovered = discover,
                                                 !.before =
                                                     IF targetScriptProjectId \in DOMAIN proj
                                                     THEN proj[targetScriptProjectId]
                                                     ELSE <<>>]
                         /\ pc' = "us_tgt"
                         /\ UNCHANGED <<response, hist, i>>
    /\ UNCHANGED <<prog, proj, remoteRO, req, sourceContent, scriptIdMap,
                   targetSpreadsheets, sent>>

\* lines 343-350: count the target's outcome
MainRecord ==
    /\ pc = "m_record"
    /\ LET ok == loc.result = "ok"
       IN  /\ response' = [response EXCEPT
                  !.copyFunctions.successful = IF ok THEN @ + 1 ELSE @,
                  !.copyFunctions.failed = IF ok THEN @ ELSE @ + 1]
           /\ hist' = [hist EXCEPT !.targets =
                  Append(@, TargetHist("cli", loc.target,
                                       IF ok THEN "success" ELSE "failed", FALSE,
                                       calls, loc))]
           /\ i' = nextIndex(i, Len(targetSpreadsheets), ~ok)
    /\ pc' = "m_loop"
    /\ UNCHANGED <<prog, proj, remoteRO, req, loc, sourceContent, scriptIdMap,
                   targetSpreadsheets, sent, calls>>

\* lines 353-360: print the summary
MainSummary ==
    /\ pc = "m_loop"
    /\ i >= Len(targetSpreadsheets)
    /\ response' = [response EXCEPT !.copyFunctions.total = Len(targetSpreadsheets)]
    /\ sent' = Append(sent, "summary")
    /\ pc' = "done"
    /\ UNCHANGED <<prog, proj, remoteRO, req, i, loc, sourceContent, scriptIdMap,
                   targetSpreadsheets, calls, hist>>

MainInit ==
    /\ prog = "cli"
    /\ proj = InitProj
    /\ source \in SourceLists
    /\ sheetRows \in Seqs(CliRowKinds, MaxTargets)
    /\ sheetNames = {SHEET_NAME}
    /\ drive = BoundScripts
    /\ req \in {[NoReq EXCEPT !.sourceScriptId = s, !.wellFormed = w] :
                    s \in BOOLEAN, w \in BOOLEAN}
    /\ pc = "main"
    /\ i = 0
    /\ loc = NoLoc
    /\ sourceContent = <<>>
    /\ scriptIdMap = EmptyMap
    /\ targetSpreadsheets = <<>>
    /\ response = NoResponses
    /\ sent = <<>>
    /\ calls = <<>>
    /\ hist = NoHist

MainNext ==
    \/ MainBegin
    \/ MainSourceId
    \/ MainReadSource
    \/ MainFatal
    \/ MainTarget
    \/ UsReadTarget
    \/ UsPush
    \/ MainRecord
    \/ MainSummary

----------------------------------------------------------------------------
(* The two programs *)

Init == ServerInit \/ MainInit

Next == ServerNext \/ MainNext

Spec == Init /\ [][Next]_vars

----------------------------------------------------------------------------
(* Consecutive transfers to one target: transferCode(source, target) applied
   MaxTransfers times, by either program's engine *)


TransferInit ==
    /\ prog \in {"cli", "server"}
    /\ \E fl \in FileLists(TargetFileUniverse, MaxFiles) :
         proj = [s \in ScriptIds |-> fl]
    /\ source \in SourceLists
    /\ sheetRows = <<>>
    /\ sheetNames = {SHEET_NAME}
    /\ drive = <<>>
    /\ req = NoReq
    /\ pc = "t_idle"
    /\ i = 0
    /\ loc = NoLoc
    /\ sourceContent = <<>>
    /\ scriptIdMap = EmptyMap
    /\ targetSpreadsheets = <<>>
    /\ response = NoResponses
    /\ sent = <<>>
    /\ calls = <<>>
    /\ hist = NoHist

TransferStart ==
    /\ pc = "t_idle"
    /\ i < MaxTransfers
    /\ i' = i + 1
    /\ loc' = [NoLoc EXCEPT !.sid = S1, !.ret = "t_ret", !.before = proj[S1]]
    /\ calls' = <<>>
    /\ pc' = IF prog = "server" THEN "cf_src" ELSE "t_src"
    /\ UNCHANGED <<prog, proj, remoteRO, req, sourceContent, scriptIdMap,
                   targetSpreadsheets, response, sent, hist>>

TransferReadSource ==
    /\ pc = "t_src"
    /\ GetScriptContent("us_tgt", "t_ret")
    /\ loc' = loc

TransferReturn ==
    /\ pc = "t_ret"
    /\ hist' = [hist EXCEPT !.runs = Append(@,
                   [ok |-> loc.result = "ok", fetchOk |-> loc.fetchOk,
                    after |-> proj[S1]])]
    /\ pc' = "t_idle"
    /\ UNCHANGED <<prog, proj, remoteRO, req, i, loc, sourceContent, scriptIdMap,
                   targetSpreadsheets, response, sent, calls>>

TransferNext ==
    \/ TransferStart
    \/ TransferReadSource
    \/ TransferReturn
    \/ CfReadSource
    \/ CfReadTarget
    \/ CfPush
    \/ UsReadTarget
    \/ UsPush

SpecTransfer == TransferInit /\ [][TransferNext]_vars

----------------------------------------------------------------------------
(* The generated procedure run on its own: copyButtonsWithFunctions applied to
   a placement list, under every behaviour of the target spreadsheet *)

ImageIds == {"imgA", "imgB"}
Coordinates == { <<2, 5>>, <<1, 2>> }

\* manifest entries of at most MaxButtons image ids and at most MaxButtons
\* coordinate pairs
ProcEntries ==
    { [scriptId |-> S1, buttonImageIds |-> im, coordinates |-> co] :
        im \in Seqs(ImageIds, MaxButtons), co \in Seqs(Coordinates, MaxButtons) }

ProcInit ==
    /\ prog = "server"
    /\ proj = InitProj
    /\ source = <<>>
    /\ sheetRows = <<>>
    /\ sheetNames = {SHEET_NAME}
    /\ drive = <<>>
    /\ req \in {[NoReq EXCEPT !.buttonScript = s] : s \in BOOLEAN}
    /\ pc = "gp_build"
    /\ i = 0
    /\ loc \in {[NoLoc EXCEPT !.entry = e] : e \in ProcEntries}
    /\ sourceContent = <<>>
    /\ scriptIdMap = EmptyMap
    /\ targetSpreadsheets = <<>>
    /\ response = NoResponses
    /\ sent = <<>>
    /\ calls = <<>>
    /\ hist = NoHist

\* lines 319-341: the preconditions, then the placement list put into the
\* text of the procedure
GpAssemble ==
    /\ pc = "gp_build"
    /\ IF preconditionError(loc.entry) = "none"
       THEN /\ loc' = [loc EXCEPT !.buttonData = embeddedButtons(loc.entry)]
            /\ pc' = "gp_idle"
       ELSE /\ loc' = [loc EXCEPT !.result = "throw"]
            /\ pc' = "gp_failed"
    /\ UNCHANGED <<prog, proj, remoteRO, req, i, sourceContent, scriptIdMap,
                   targetSpreadsheets, response, sent, calls, hist>>

GpRun ==
    /\ pc = "gp_idle"
    /\ \E env \in Envs(Len(loc.buttonData)) :
         loc' = [loc EXCEPT !.env = env,
                            !.exec = copyButtonsWithFunctions(loc.buttonData, env,
                                                              req.buttonScript)]
    /\ pc' = "gp_done"
    /\ UNCHANGED <<prog, proj, remoteRO, req, i, sourceContent, scriptIdMap,
                   targetSpreadsheets, response, sent, calls, hist>>

ProcNext ==
    \/ GpAssemble
    \/ GpRun

SpecProc == ProcInit /\ [][ProcNext]_vars

----------------------------------------------------------------------------
(* The sheet readers run on their own: readScriptIds (server) and readSheetIds
   (cli) applied to the rows of a sheet *)

IdCells == { <<>>, <<" ">>, SheetA, UrlPattern1 \o SheetA \o <<"/", "e", "d", "i", "t">> }
ScriptCells == { <<>>, <<" ">>, S1, <<" ">> \o S2 \o <<" ">> }
ImageCells == { <<"a", ",", "b">> }
CoordCells == { <<>>, <<"2", ",", "5">> }

RawRows ==
    { RawRow(a, b, c, d) : a \in IdCells, b \in ScriptCells, c \in ImageCells, d \in CoordCells }

RowsInit ==
    /\ prog \in {"cli", "server"}
    /\ proj = InitProj
    /\ source = <<>>
    /\ sheetRows \in Seqs(RawRows, MaxRows)
    /\ sheetNames = {SHEET_NAME}
    /\ drive = <<>>
    /\ req = NoReq
    /\ pc = "rd_idle"
    /\ i = 0
    /\ loc = NoLoc
    /\ sourceContent = <<>>
    /\ scriptIdMap = EmptyMap
    /\ targetSpreadsheets = <<>>
    /\ response = NoResponses
    /\ sent = <<>>
    /\ calls = <<>>
    /\ hist = NoHist

RowsRead ==
    /\ pc = "rd_idle"
    /\ IF prog = "server"
       THEN /\ scriptIdMap' = readScriptIds(parseRows(sheetRows))
            /\ UNCHANGED targetSpreadsheets
       ELSE /\ targetSpreadsheets' = readSheetIds(parseRows(sheetRows))
            /\ UNCHANGED scriptIdMap
    /\ pc' = "rd_done"
    /\ UNCHANGED <<prog, proj, remoteRO, req, i, loc, sourceContent,
                   response, sent, calls, hist>>

RowsNext == RowsRead

SpecRows == RowsInit /\ [][RowsNext]_vars

----------------------------------------------------------------------------
(* The choice of the source file on its own: the find of updateScriptContent
   (cli) and of copyFunction (server) applied to a source file list *)

\* files a source project may hold
SourceFileUniverse ==
    { File(CodeName, "SERVER_JS", "new"),
      File(CodigoName, "SERVER_JS", "novo"),
      File(MyCodeName, "SERVER_JS", "mine"),
      File(ManifestName, "JSON", "srcmanifest") }

SelectInit ==
    /\ prog \in {"cli", "server"}
    /\ proj = InitProj
    /\ source \in FileLists(SourceFileUniverse, MaxFiles)
    /\ sheetRows = <<>>
    /\ sheetNames = {SHEET_NAME}
    /\ drive = <<>>
    /\ req = NoReq
    /\ pc = "sel_idle"
    /\ i = 0
    /\ loc = NoLoc
    /\ sourceContent = <<>>
    /\ scriptIdMap = EmptyMap
    /\ targetSpreadsheets = <<>>
    /\ response = NoResponses
    /\ sent = <<>>
    /\ calls = <<>>
    /\ hist = NoHist

SelectFile ==
    /\ pc = "sel_idle"
    /\ loc' = [loc EXCEPT !.srcFile = IF prog = "cli" THEN sourceCodeFile(source)
                                      ELSE sourceFunctionFile(source)]
    /\ pc' = "sel_done"
    /\ UNCHANGED <<prog, proj, remoteRO, req, i, sourceContent, scriptIdMap,
                   targetSpreadsheets, response, sent, calls, hist>>

SelectNext == SelectFile

SpecSelect == SelectInit /\ [][SelectNext]_vars

----------------------------------------------------------------------------
(* Claims about the Content Transfer Engine, under SpecTransfer *)

\* a file that matches neither the code-file name or alias nor the server-code type
Preserved(f) ==
    f.name # CodeName /\ f.name # CodigoName /\ f.type # "SERVER_JS"

AllPreservedPushed ==
    \A k \in 1..Len(loc.before) :
        Preserved(loc.before[k]) => loc.before[k] \in FileSet(loc.files)

\* C3 as stated: whenever a transfer pushes a replacement list, every file of
\* the target project that matches neither the code-file name/alias nor the
\* server-code type is in the pushed list with the same name, type and source.
C3_Original ==
    (loc.pushed /\ loc.pushOk) => AllPreservedPushed

\* C3 amended: the same, provided the target's file list was fetched; when the
\* fetch fails (server, where the failure is swallowed) the pushed list holds
\* the code file alone.
C3_PreservesFetchedFiles ==
    /\ (loc.pushed /\ loc.fetchOk) => AllPreservedPushed
    /\ (loc.pushed /\ ~loc.fetchOk) =>
          loc.files = << File(CodeName, "SERVER_JS", loc.srcFile.source) >>

C3_Witness ==
    /\ loc.pushed /\ loc.pushOk /\ loc.fetchOk
    /\ \E k \in 1..Len(loc.before) : loc.before[k].name = CodeName
    /\ \E k \in 1..Len(loc.before) :
          Preserved(loc.before[k]) /\ loc.before[k] \in FileSet(proj[loc.sid])

\* C4 as stated: a transfer overwrites only the designated code file; every
\* other file of the target, other server-code files included, has the same
\* source after the transfer as before it.
C4_OnlyCodeFileOverwritten ==
    (loc.pushed /\ loc.pushOk /\ loc.fetchOk) =>
        \A k \in 1..Len(loc.before) :
            (loc.before[k].name # CodeName /\ loc.before[k].name # CodigoName) =>
                \E j \in 1..Len(loc.files) :
                    /\ loc.files[j].name = loc.before[k].name
                    /\ loc.files[j].source = loc.before[k].source

SameFileSet(a, b) == FileSet(a) = FileSet(b) /\ Len(a) = Len(b)

\* C5 as stated: after two consecutive successful transfers the target's file
\* set equals the file set after the first.
C5_Original ==
    \A j \in 1..(Len(hist.runs) - 1) :
        (hist.runs[j].ok /\ hist.runs[j + 1].ok) =>
            SameFileSet(hist.runs[j + 1].after, hist.runs[j].after)

\* C5 amended: the same, provided the second transfer fetched the target's
\* file list (a swallowed fetch failure makes it push the code file alone).
C5_IdempotentWhenFetched ==
    \A j \in 1..(Len(hist.runs) - 1) :
        (hist.runs[j].ok /\ hist.runs[j + 1].ok /\ hist.runs[j + 1].fetchOk) =>
            SameFileSet(hist.runs[j + 1].after, hist.runs[j].after)

C5_Witness ==
    /\ Len(hist.runs) >= 2
    /\ hist.runs[1].ok /\ hist.runs[2].ok /\ hist.runs[2].fetchOk
    /\ Len(hist.runs[2].after) >= 2
    /\ \E k \in 1..Len(hist.runs[2].after) : hist.runs[2].after[k].source = "new"

----------------------------------------------------------------------------
(* Claims about the batches, under Spec *)

\* the summary has been emitted: the server answered 200, the cli printed its summary
BatchDone == pc = "done" /\ sent # <<>> /\ sent[Len(sent)] \in {"200", "summary"}

\* the history entries of one operation, in the order the targets were taken
TargetsOf(op) == SelectSeq(hist.targets, LAMBDA e : e.op = op)

AnyRaised(e) == \E k \in 1..Len(e.calls) : ~e.calls[k].ok

\* a call raised other than the server's read of the target's existing content
RaisedUnswallowed(e) ==
    \E k \in 1..Len(e.calls) :
        /\ ~e.calls[k].ok
        /\ ~(e.op \in {"fn", "btn"} /\ e.calls[k].api = "getContent:target")

\* the summary of one server operation over the targets refs: total, one
\* detail per target in input order, the counters agree with the details
Enumerates(r, refs) ==
    /\ r.total = Len(refs)
    /\ Len(r.details) = Len(refs)
    /\ \A k \in 1..Len(refs) :
          /\ r.details[k].spreadsheetId = extractSpreadsheetId(refs[k])
          /\ r.details[k].status \in {"success", "failed"}
    /\ r.successful = Cardinality({k \in 1..Len(r.details) : r.details[k].status = "success"})
    /\ r.failed = Cardinality({k \in 1..Len(r.details) : r.details[k].status = "failed"})

\* every target of the operation was processed, and what is recorded for a
\* target follows from its own processing alone
Contained(op, n) ==
    LET es == TargetsOf(op)
    IN  /\ Len(es) = n
        /\ \A k \in 1..Len(es) :
              /\ (es[k].noScriptId \/ RaisedUnswallowed(es[k])) => es[k].status = "failed"
              /\ es[k].status = "success" <=> (~es[k].noScriptId /\ es[k].result = "ok")

\* the history's statuses are the ones in the server's detail entries
StatusesAgree(op, r) ==
    LET es == TargetsOf(op)
    IN  /\ Len(es) = Len(r.details)
        /\ \A k \in 1..Len(es) : es[k].status = r.details[k].status

\* C1 as stated, for the server's copyFunctions batch with a source project
\* that holds a Code file: if target k's script id is missing or any remote
\* call for k raises, while no call of any other target raises and none lacks a
\* script id, then k is marked failed and every other target success.
C1_Original ==
    (BatchDone /\ prog = "server" /\ req.fnEnable /\ sourceFunctionFile(source) # NoFile) =>
        LET es == TargetsOf("fn")
            r == response.copyFunctions
        IN  \A k \in 1..Len(es) :
              ( /\ es[k].noScriptId \/ AnyRaised(es[k])
                /\ \A j \in 1..Len(es) :
                      j # k => ~es[j].noScriptId /\ ~AnyRaised(es[j]) ) =>
                  /\ Len(r.details) = Len(es)
                  /\ r.details[k].status = "failed"
                  /\ \A j \in 1..Len(es) : j # k => r.details[j].status = "success"

\* C1 amended: when a batch ends with its summary, every target has been
\* processed whatever happened to the others; a target whose script id is
\* missing or undiscoverable, or for which a remote call raised (other than the
\* server's read of the target's existing content, which is swallowed), is
\* marked failed; a target is marked success exactly when its own operation
\* returned; the server's summary has total = N and N details in input order,
\* the cli's summary has total = N = successful + failed.
C1_BatchContainment ==
    BatchDone =>
        IF prog = "server"
        THEN /\ req.fnEnable =>
                  /\ Enumerates(response.copyFunctions, req.fnTargets)
                  /\ Contained("fn", Len(req.fnTargets))
                  /\ StatusesAgree("fn", response.copyFunctions)
             /\ req.btnEnable =>
                  /\ Enumerates(response.copyButtons, req.btnTargets)
                  /\ Contained("btn", Len(req.btnTargets))
                  /\ StatusesAgree("btn", response.copyButtons)
        ELSE LET es == TargetsOf("cli")
                 r == response.copyFunctions
             IN  /\ r.total = Len(targetSpreadsheets)
                 /\ Contained("cli", Len(targetSpreadsheets))
                 /\ \A k \in 1..Len(es) : es[k].ref = targetSpreadsheets[k].spreadsheetId
                 /\ r.successful = Cardinality({k \in 1..Len(es) : es[k].status = "success"})
                 /\ r.failed = Cardinality({k \in 1..Len(es) : es[k].status = "failed"})
                 /\ r.successful + r.failed = r.total

\* a copyFunctions batch whose first target failed on a raised call and whose
\* second target succeeded
C1_Witness ==
    /\ BatchDone /\ prog = "server" /\ req.fnEnable
    /\ Len(response.copyFunctions.details) >= 2
    /\ response.copyFunctions.details[1].status = "failed"
    /\ response.copyFunctions.details[2].status = "success"
    /\ AnyRaised(TargetsOf("fn")[1])

\* C2 as stated: whenever the server emits a summary for an enabled operation
\* (200, or 500 when the master sheet cannot be read), the summary has exactly
\* one detail entry per target, naming the target and its status.
C2_OneDetailPerTarget ==
    (pc = "done" /\ prog = "server" /\ sent # <<>> /\ sent[Len(sent)] \in {"200", "500"}) =>
        /\ req.fnEnable => Enumerates(response.copyFunctions, req.fnTargets)
        /\ (req.btnEnable /\ sent[Len(sent)] = "200") =>
              Enumerates(response.copyButtons, req.btnTargets)

----------------------------------------------------------------------------
(* Claims about the placement operation, under Spec *)

\* the master sheet's entry of a target reference (the server's sheet is MasterRows)
EntryOf(ref) == MapGet(readScriptIds(MasterRows), extractSpreadsheetId(ref))

\* the target references whose entry has as many image ids as coordinate pairs or not
MismatchedRefs ==
    {ref \in TargetRefs :
        /\ EntryOf(ref).scriptId # NoId
        /\ Len(EntryOf(ref).buttonImageIds) # Len(EntryOf(ref).coordinates)}

Mismatched(ref) == ref \in MismatchedRefs

ApisOf(e) == {e.calls[k].api : k \in 1..Len(e.calls)}

\* C6 as stated: a target whose number of image ids differs from its number of
\* coordinate pairs fails before any remote call is made.
C6_Original ==
    \A k \in 1..Len(hist.targets) :
        (hist.targets[k].op = "btn" /\ Mismatched(hist.targets[k].ref)) =>
            /\ hist.targets[k].status = "failed"
            /\ hist.targets[k].calls = <<>>

\* C6 amended: such a target fails before any content read, content write or
\* execution; the master sheet is read (metadata and range) and the script id
\* probed before the counts are compared, and the target's project is unchanged.
C6_MismatchFailsBeforeContentCalls ==
    /\ \A k \in 1..Len(hist.targets) :
          (hist.targets[k].op = "btn" /\ Mismatched(hist.targets[k].ref)) =>
              /\ hist.targets[k].status = "failed"
              /\ ApisOf(hist.targets[k]) \subseteq {"sheets.get", "values.get", "projects.get"}
    /\ (pc \in {"cb_tgt", "cb_push", "cb_run"}) =>
          Len(loc.entry.buttonImageIds) = Len(loc.entry.coordinates)
    /\ (pc = "btn_record" /\ Mismatched(req.btnTargets[i + 1])) =>
          /\ loc.result = "throw"
          /\ loc.sid \in DOMAIN proj => proj[loc.sid] = loc.before

\* a mismatched target recorded failed after the sheet was read and the probe returned
C6_Witness ==
    \E k \in 1..Len(hist.targets) :
        /\ hist.targets[k].op = "btn" /\ Mismatched(hist.targets[k].ref)
        /\ hist.targets[k].status = "failed"
        /\ hist.targets[k].calls =
              << Call("sheets.get", TRUE), Call("values.get", TRUE), Call("projects.get", TRUE) >>

TempFiles(files) == {k \in 1..Len(files) : files[k].name = TempName}

GeneratedFile == File(TempName, "SERVER_JS", "generated")

\* C7 as stated: the pushed list holds every existing file of the target
\* project not named tempCopyButtons, plus exactly one file of that name.
C7_Original ==
    (pc \in {"cb_run", "btn_record"} /\ loc.pushed) =>
        /\ \A k \in 1..Len(loc.before) :
              loc.before[k].name # TempName => loc.before[k] \in FileSet(loc.files)
        /\ Cardinality(TempFiles(loc.files)) = 1

\* C7 amended: the pushed list holds every fetched file of the target not
\* named tempCopyButtons, in order, followed by exactly one file of that name
\* (the generated one); when the fetch fails the list is that file alone.  The
\* upload has happened when the procedure is invoked, and the file is still in
\* the project when the operation ends, whether the invocation returned or raised.
C7_GeneratedFileHandling ==
    /\ (pc \in {"cb_run", "btn_record"} /\ loc.pushed) =>
          /\ Len(loc.files) >= 1
          /\ SubSeq(loc.files, 1, Len(loc.files) - 1) =
                SelectSeq(loc.fetched, LAMBDA f : f.name # TempName)
          /\ loc.files[Len(loc.files)] = GeneratedFile
          /\ TempFiles(loc.files) = {Len(loc.files)}
          /\ ~loc.fetchOk => loc.files = << GeneratedFile >>
    /\ pc = "cb_run" =>
          /\ loc.pushOk
          /\ "scripts.run" \notin {calls[k].api : k \in 1..Len(calls)}
          /\ proj[loc.sid] = loc.files
    /\ (pc = "btn_record" /\ loc.run # "none") =>
          /\ proj[loc.sid] = loc.files
          /\ Cardinality(TempFiles(proj[loc.sid])) = 1

\* a target that held a tempCopyButtons file of a prior run, after an
\* invocation that raised: the file is there once, with the generated source
C7_Witness ==
    /\ pc = "btn_record" /\ loc.run = "transport" /\ loc.fetchOk
    /\ \E k \in 1..Len(loc.before) : loc.before[k] = File(TempName, "SERVER_JS", "oldtemp")
    /\ Len(proj[loc.sid]) = Len(loc.before)
    /\ GeneratedFile \in FileSet(proj[loc.sid])

\* C9: when the execution call raises or its response carries an error object,
\* the placement operation raises and the target is recorded failed; when the
\* execution returns, the target is recorded success even if placements inside
\* it report errors.
C9_ExecutionErrorFailsTarget ==
    /\ \A k \in 1..Len(hist.targets) :
          LET e == hist.targets[k]
          IN  e.op = "btn" =>
                /\ e.run \in {"transport", "errorObject"} =>
                      (e.result = "throw" /\ e.status = "failed")
                /\ e.run \in {"returned", "noResult"} =>
                      (e.result = "ok" /\ e.status = "success")
    /\ (BatchDone /\ prog = "server" /\ req.btnEnable) =>
          StatusesAgree("btn", response.copyButtons)

\* a target recorded success although a placement inside the execution
\* reported an error
C9_Witness ==
    /\ BatchDone /\ prog = "server"
    /\ \E k \in 1..Len(response.copyButtons.details) :
          LET e == TargetsOf("btn")[k]
          IN  /\ response.copyButtons.details[k].status = "success"
              /\ e.run = "returned"
              /\ \E b \in 1..Len(e.exec.buttons) : e.exec.buttons[b].error

----------------------------------------------------------------------------
(* Claims about discovery, under Spec *)

\* whether the sheet gives no script id for the k-th target of the operation
NoScriptIdRefs == {ref \in TargetRefs : EntryOf(ref).scriptId = NoId}

NoManifestScriptId(e, k) ==
    IF e.op = "cli" THEN targetSpreadsheets[k].scriptId = NoId
    ELSE e.ref \in NoScriptIdRefs

Raised(e, api) == \E k \in 1..Len(e.calls) : e.calls[k] = Call(api, FALSE)

\* C10 as stated: for every target whose sheet entry has no script id, the
\* orchestrator attempts discovery.
C10_Original ==
    \A op \in {"fn", "cli"} :
        \A k \in 1..Len(TargetsOf(op)) :
            NoManifestScriptId(TargetsOf(op)[k], k) => TargetsOf(op)[k].discovered

\* C10 amended: the cli's main attempts discovery for every target whose sheet
\* entry has no script id, and for no other; the target is recorded failed
\* without any content call when discovery gives nothing, a raised lookup
\* included, and the next target is processed; when discovery gives a project
\* the transfer goes on with it.  The server's copyFunctions loop attempts no
\* discovery: a target without a script id in the sheet is recorded failed at once.
C10_CliDiscovers ==
    /\ \A k \in 1..Len(TargetsOf("cli")) :
          LET e == TargetsOf("cli")[k]
          IN  /\ e.discovered <=> NoManifestScriptId(e, k)
              /\ e.discovered =>
                    /\ Len(e.calls) >= 1 /\ e.calls[1].api = "sheets.get"
                    /\ e.noScriptId <=>
                          (DriveFiles(drive, e.ref) = <<>>
                             \/ Raised(e, "sheets.get")
                             \/ Raised(e, "files.list"))
                    /\ e.noScriptId =>
                          (e.status = "failed"
                             /\ ApisOf(e) \subseteq {"sheets.get", "files.list"})
                    /\ ~e.noScriptId => "getContent:target" \in ApisOf(e)
    /\ \A k \in 1..Len(TargetsOf("fn")) :
          LET e == TargetsOf("fn")[k]
          IN  /\ ~e.discovered
              /\ NoManifestScriptId(e, k) =>
                    (e.noScriptId /\ e.status = "failed" /\ e.calls = <<>>)
    /\ (BatchDone /\ prog = "cli") => Len(TargetsOf("cli")) = Len(targetSpreadsheets)

\* a cli batch whose first target's lookup raised and whose second target's
\* script project was discovered and updated
C10_Witness ==
    /\ BatchDone /\ prog = "cli"
    /\ Len(TargetsOf("cli")) >= 2
    /\ TargetsOf("cli")[1].discovered /\ TargetsOf("cli")[1].noScriptId
    /\ AnyRaised(TargetsOf("cli")[1])
    /\ TargetsOf("cli")[2].discovered /\ TargetsOf("cli")[2].status = "success"

----------------------------------------------------------------------------
(* Claims about the generated procedure, under SpecProc *)

PlacementOk(k) == loc.env.insert[k] /\ (req.buttonScript => loc.env.assign[k])

\* C8: when the procedure runs on M placements and reaches its loop, all M
\* placements are attempted in order whichever of them fail; the returned
\* detail list has M entries in placement order; the entries of the failed
\* placements, and only those, carry error; copiedCount is the number of
\* entries without error.
C8_PlacementFailuresContained ==
    (pc = "gp_done" /\ loc.env.tabFound) =>
        LET M == Len(loc.buttonData)
            r == loc.exec
        IN  /\ r.success
            /\ r.inserts = [k \in 1..M |-> loc.buttonData[k].imageId]
            /\ Len(r.buttons) = M
            /\ \A k \in 1..M :
                  /\ r.buttons[k].imageId = loc.buttonData[k].imageId
                  /\ r.buttons[k].position = <<loc.buttonData[k].col, loc.buttonData[k].row>>
                  /\ r.buttons[k].error <=> ~PlacementOk(k)
            /\ r.copiedCount = Cardinality({k \in 1..M : ~r.buttons[k].error})

\* the first placement failed and a later one was inserted
C8_Witness ==
    /\ pc = "gp_done" /\ loc.env.tabFound
    /\ Len(loc.buttonData) >= 2
    /\ ~PlacementOk(1) /\ PlacementOk(2)
    /\ loc.exec.copiedCount = 1
    /\ loc.exec.buttons[1].error /\ ~loc.exec.buttons[2].error

----------------------------------------------------------------------------
\* C18: for a manifest entry with image ids a_1..a_n and coordinate pairs
\* c_1..c_n, the placement list in the generated procedure has exactly n
\* elements, the i-th being {imageId: a_i, col: column of c_i, row: row of c_i},
\* in the order of the manifest; one image 'imgA' with the pair (2,5) gives
\* the one placement {imageId: 'imgA', col: 2, row: 5}.
C18_PlacementAssembly ==
    pc \in {"gp_idle", "gp_done"} =>
        LET a == loc.entry.buttonImageIds
            c == loc.entry.coordinates
        IN  /\ Len(a) = Len(c)
            /\ Len(loc.buttonData) = Len(a)
            /\ \A k \in 1..Len(a) :
                  /\ loc.buttonData[k].imageId = a[k]
                  /\ loc.buttonData[k].col = c[k][1]
                  /\ loc.buttonData[k].row = c[k][2]
            /\ (a = << "imgA" >> /\ c = << <<2, 5>> >>) =>
                  loc.buttonData = << [imageId |-> "imgA", col |-> 2, row |-> 5] >>

\* the entry with the one image 'imgA' at (2,5) was assembled
C18_Witness ==
    /\ pc = "gp_idle"
    /\ loc.entry.buttonImageIds = << "imgA" >>
    /\ loc.entry.coordinates = << <<2, 5>> >>
    /\ loc.buttonData = << [imageId |-> "imgA", col |-> 2, row |-> 5] >>

----------------------------------------------------------------------------
(* Claims about the sheet readers, under SpecRows *)

\* the resolved spreadsheet id of the k-th row
ResolvedId(k) == extractSpreadsheetId(sheetRows[k].id)

HasScriptId(k) == Trim(sheetRows[k].scriptId) # <<>>

\* C11 as stated: every row whose resolved spreadsheet id is non-empty is
\* recorded, also when its script id cell is empty.
C11_Original ==
    (pc = "rd_done" /\ prog = "server") =>
        \A k \in 1..Len(sheetRows) :
            ResolvedId(k) # NoId => ResolvedId(k) \in DOMAIN scriptIdMap

\* C11 amended: the cli's readSheetIds records every row whose resolved
\* spreadsheet id is non-empty, in sheet order, with scriptId absent when the
\* cell is empty or blank, and rejects only rows with an empty id; the
\* server's readScriptIds records a row only when its script id is non-empty too.
C11_RowAcceptance ==
    pc = "rd_done" =>
        IF prog = "cli"
        THEN LET kept == {k \in 1..Len(sheetRows) : ResolvedId(k) # NoId}
             IN  /\ Len(targetSpreadsheets) = Cardinality(kept)
                 /\ \A j \in 1..Len(targetSpreadsheets) :
                       LET k == CHOOSE x \in kept :
                                   Cardinality({y \in kept : y <= x}) = j
                       IN  /\ targetSpreadsheets[j].spreadsheetId = ResolvedId(k)
                           /\ targetSpreadsheets[j].scriptId = Trim(sheetRows[k].scriptId)
        ELSE /\ DOMAIN scriptIdMap =
                   {ResolvedId(k) : k \in {x \in 1..Len(sheetRows) :
                                              ResolvedId(x) # NoId /\ HasScriptId(x)}}
             /\ \A key \in DOMAIN scriptIdMap : scriptIdMap[key].scriptId # NoId

\* the cli kept a row without script id, after a row with an empty id
C11_Witness ==
    /\ pc = "rd_done" /\ prog = "cli"
    /\ Len(sheetRows) = 2 /\ ResolvedId(1) = NoId
    /\ Len(targetSpreadsheets) = 1
    /\ targetSpreadsheets[1].spreadsheetId = SheetA
    /\ targetSpreadsheets[1].scriptId = NoId

----------------------------------------------------------------------------
(* Claims about the choice of the source file, under SpecSelect *)

FilesNamed(files, n) == {f \in FileSet(files) : f.name = n}

\* the file the stated priority designates: the one named Code, otherwise the
\* one named with the alias, otherwise one whose name contains Code
ByPriority(files) ==
    IF FilesNamed(files, CodeName) # {} THEN FilesNamed(files, CodeName)
    ELSE IF FilesNamed(files, CodigoName) # {} THEN FilesNamed(files, CodigoName)
    ELSE {f \in FileSet(files) : Includes(f.name, CodeName)}

\* C12 as stated: the source file is chosen by priority (exact name, then
\* alias, then a name containing Code), whatever the order of the list; no
\* file is chosen only when none qualifies.
C12_SelectionByPriority ==
    pc = "sel_done" =>
        IF ByPriority(source) = {} THEN loc.srcFile = NoFile
        ELSE loc.srcFile \in ByPriority(source)

----------------------------------------------------------------------------
(* Claims about a failed read of the target, under SpecTransfer *)

FetchRaised == \E k \in 1..Len(calls) : calls[k] = Call("getContent:target", FALSE)

\* C13 as stated: when the read of the target's file list raises, the
\* transfer goes on as if the target were empty and pushes the replacement list.
C13_Original ==
    (pc = "t_ret" /\ FetchRaised) =>
        (loc.pushed /\ loc.files = << File(CodeName, "SERVER_JS", loc.srcFile.source) >>)

\* C13 amended: in the server's copyFunction a raised read of the target's
\* file list is not fatal: the transfer goes on with an empty list, pushes the
\* code file alone and returns when the push returns.  In the cli's
\* updateScriptContent the raised read is rethrown: nothing is pushed, the
\* target is unchanged and the transfer fails.
C13_FetchFailure ==
    /\ (prog = "server" /\ pc = "cf_push" /\ FetchRaised) =>
          (~loc.fetchOk /\ loc.fetched = <<>>)
    /\ (prog = "server" /\ pc = "t_ret" /\ FetchRaised) =>
          /\ loc.pushed
          /\ loc.files = << File(CodeName, "SERVER_JS", loc.srcFile.source) >>
          /\ loc.pushOk <=> loc.result = "ok"
          /\ loc.pushOk => proj[loc.sid] = loc.files
          /\ ~loc.pushOk => proj[loc.sid] = loc.before
    /\ (prog = "cli" /\ pc = "t_ret" /\ FetchRaised) =>
          /\ loc.result = "throw"
          /\ ~loc.pushed
          /\ proj[loc.sid] = loc.before

\* the server's transfer returned after a raised read: the target, which held
\* other files, now holds the code file alone
C13_Witness ==
    /\ prog = "server" /\ pc = "t_ret" /\ FetchRaised
    /\ loc.result = "ok"
    /\ Len(loc.before) >= 2
    /\ proj[loc.sid] = << File(CodeName, "SERVER_JS", "new") >>

----------------------------------------------------------------------------
(* Claims about the reading of the master sheet by the server, under Spec *)

ReadFailed(cs) ==
    \/ cs = << Call("sheets.get", FALSE) >>
    \/ cs = << Call("sheets.get", TRUE) >> /\ SHEET_NAME \notin sheetNames
    \/ cs = << Call("sheets.get", TRUE), Call("values.get", FALSE) >>

\* C14: readScriptIds reads the range only after the metadata read returned
\* and the named sheet was found in it; when the sheet is absent the read
\* fails without the range being read; when the metadata read or the range
\* read raises the read fails, nothing follows it and no map is returned.
C14_ReadOrdering ==
    prog = "server" =>
        /\ \A k \in 1..Len(calls) :
              calls[k].api = "values.get" =>
                  /\ k > 1
                  /\ calls[k - 1] = Call("sheets.get", TRUE)
                  /\ SHEET_NAME \in sheetNames
        /\ \A k \in 1..Len(calls) :
              (calls[k].api \in {"sheets.get", "values.get"} /\ ~calls[k].ok) => k = Len(calls)
        /\ SHEET_NAME \notin sheetNames => (scriptIdMap = EmptyMap /\ loc.entry = NoEntry)
        /\ pc = "fn_loop" => scriptIdMap = readScriptIds(sheetRows)
        /\ (pc = "done" /\ sent # <<>> /\ sent[Len(sent)] = "500") =>
              (scriptIdMap = EmptyMap /\ ReadFailed(calls))
        /\ pc = "cb_validate" =>
              calls = << Call("sheets.get", TRUE), Call("values.get", TRUE) >>
        /\ (pc = "btn_record" /\ ReadFailed(calls)) =>
              (loc.result = "throw" /\ loc.entry = NoEntry)

\* the sheet is not in the metadata: the read failed after the metadata read alone
C14_Witness ==
    /\ prog = "server" /\ pc = "done" /\ sent = << "500" >>
    /\ SHEET_NAME \notin sheetNames
    /\ calls = << Call("sheets.get", TRUE) >>

----------------------------------------------------------------------------
(* validateAndTestScriptAccess on its own, applied to a script id *)

ProbeChars == { "x", "Z", "7", "_", "-", "!", "/", " ", "." }

\* no id, and ids one short of the least length and longer, one character of
\* which is any of ProbeChars
ValidateIds ==
    {NoId} \cup
    UNION { { [Rep("x", n) EXCEPT ![p] = c] : p \in 1..n, c \in ProbeChars } :
            n \in (MinScriptIdLen - 1)..(MinScriptIdLen + MaxIdExtra) }

ValidateInit ==
    /\ prog = "server"
    /\ proj = InitProj
    /\ source = <<>>
    /\ sheetRows = <<>>
    /\ sheetNames = {SHEET_NAME}
    /\ drive = <<>>
    /\ req = NoReq
    /\ pc = "va_idle"
    /\ i = 0
    /\ loc \in {[NoLoc EXCEPT !.sid = s] : s \in ValidateIds}
    /\ sourceContent = <<>>
    /\ scriptIdMap = EmptyMap
    /\ targetSpreadsheets = <<>>
    /\ response = NoResponses
    /\ sent = <<>>
    /\ calls = <<>>
    /\ hist = NoHist

ValidateRun ==
    /\ pc = "va_idle"
    /\ \E probeOk \in BOOLEAN :
         /\ calls' = validationCalls(loc.sid, probeOk)
         /\ loc' = [loc EXCEPT !.validation =
                       IF validationValid(loc.sid, probeOk) THEN "valid" ELSE "invalid"]
    /\ pc' = "va_done"
    /\ UNCHANGED <<prog, proj, remoteRO, req, i, sourceContent, scriptIdMap,
                   targetSpreadsheets, response, sent, hist>>

ValidateNext == ValidateRun

SpecValidate == ValidateInit /\ [][ValidateNext]_vars

WellFormedId(s) ==
    /\ Len(s) >= MinScriptIdLen
    /\ ~\E k \in 1..Len(s) : s[k] \in {"!", "/", " ", "."}

\* C15: an absent id, an id shorter than 20 characters and an id holding a
\* character outside [A-Za-z0-9_-] are reported invalid with no remote call;
\* an id that passes is probed once, and is valid when the probe returns and
\* invalid (not a raised error) when the probe raises.
C15_ScriptIdValidation ==
    pc = "va_done" =>
        /\ loc.validation \in {"valid", "invalid"}
        /\ ~WellFormedId(loc.sid) => (calls = <<>> /\ loc.validation = "invalid")
        /\ WellFormedId(loc.sid) =>
              /\ Len(calls) = 1
              /\ calls[1].api = "projects.get"
              /\ loc.validation = (IF calls[1].ok THEN "valid" ELSE "invalid")

\* an id long enough that holds an invalid character was rejected unprobed
C15_Witness ==
    /\ pc = "va_done"
    /\ Len(loc.sid) >= MinScriptIdLen
    /\ \E k \in 1..Len(loc.sid) : loc.sid[k] = "!"
    /\ calls = <<>>
    /\ loc.validation = "invalid"

----------------------------------------------------------------------------
(* extractSpreadsheetId on its own, applied to a reference *)

ResolveIdChars == { "a", "Z", "7", "-", "_" }

\* ids of at most MaxIdLen characters, and an id that holds "http"
ResolveIds ==
    (Seqs(ResolveIdChars, MaxIdLen) \ {<<>>}) \cup { <<"h", "t", "t", "p">> }

UrlPrefix == <<"h", "t", "t", "p", "s", ":", "/", "/", "d", "o", "c", "s", ".", "g", "o", "o", "g", "l", "e", ".", "c", "o", "m">>
UrlSuffix == <<"/", "e", "d", "i", "t">>

FullUrl(X) == UrlPrefix \o UrlPattern1 \o X \o UrlSuffix
PathFragment(X) == UrlPattern1 \o X

\* other inputs: every string of at most MaxIdLen + 3 of these characters
OtherRefs == Seqs({ "/", "d", "a", " " }, MaxIdLen + 3)

ResolveRefs ==
    OtherRefs \cup UNION { { X, FullUrl(X), PathFragment(X) } : X \in ResolveIds }

ResolveInit ==
    /\ prog \in {"cli", "server"}
    /\ proj = InitProj
    /\ source = <<>>
    /\ sheetRows = <<>>
    /\ sheetNames = {SHEET_NAME}
    /\ drive = <<>>
    /\ req = NoReq
    /\ pc = "rs_idle"
    /\ i = 0
    /\ loc = NoLoc
    /\ sourceContent = <<>>
    /\ scriptIdMap = EmptyMap
    /\ \E ref \in ResolveRefs : targetSpreadsheets = << ref >>
    /\ response = NoResponses
    /\ sent = <<>>
    /\ calls = <<>>
    /\ hist = NoHist

ResolveRun ==
    /\ pc = "rs_idle"
    /\ loc' = [loc EXCEPT !.target = extractSpreadsheetId(targetSpreadsheets[1])]
    /\ pc' = "rs_done"
    /\ UNCHANGED <<prog, proj, remoteRO, req, i, sourceContent, scriptIdMap,
                   targetSpreadsheets, response, sent, calls, hist>>

ResolveNext == ResolveRun

SpecResolve == ResolveInit /\ [][ResolveNext]_vars

\* "/d/" is nowhere followed by a character of [a-zA-Z0-9-_]: none of the
\* three patterns matches
MatchesNoPattern(s) ==
    ~\E p \in 1..Len(s) :
        /\ p + 3 <= Len(s)
        /\ s[p] = "/" /\ s[p + 1] = "d" /\ s[p + 2] = "/"
        /\ s[p + 3] \in IdChars

\* the string without its leading and trailing blanks
Trimmed(s, t) ==
    \E a \in 0..Len(s) : \E b \in a..Len(s) :
        /\ t = SubSeq(s, a + 1, b)
        /\ \A k \in (1..a) \cup ((b + 1)..Len(s)) : s[k] = " "
        /\ t = <<>> \/ (t[1] # " " /\ t[Len(t)] # " ")

\* C16: for every id X of characters [A-Za-z0-9_-], extractSpreadsheetId
\* returns X for the bare id, for the full URL and for the path fragment; an
\* input that matches none of the patterns is returned trimmed.
C16_ResolverForms ==
    pc = "rs_done" =>
        LET input == targetSpreadsheets[1] IN
        /\ \A X \in ResolveIds :
              input \in { X, FullUrl(X), PathFragment(X) } => loc.target = X
        /\ MatchesNoPattern(input) => Trimmed(input, loc.target)

\* a full URL was resolved to the id it holds
C16_Witness ==
    /\ pc = "rs_done"
    /\ targetSpreadsheets = << FullUrl(<<"a", "-">>) >>
    /\ loc.target = <<"a", "-">>

\* an input that matches no pattern came back without its blanks
C16_WitnessTrimmed ==
    /\ pc = "rs_done"
    /\ targetSpreadsheets = << <<" ", "a", "/", "d", " ">> >>
    /\ loc.target = <<"a", "/", "d">>

----------------------------------------------------------------------------
(* The coordinate cell on its own: readScriptIds applied to one row whose
   coordinate cell is any short string *)

CellChars == { "1", "2", ",", " ", "x", "-" }

Cell1234 == <<"1", ",", "2", ",", "3", ",", "4">>
Cell123 == <<"1", ",", "2", ",", "3">>

CoordinateCells == Seqs(CellChars, MaxCellLen) \cup { Cell1234, Cell123 }

CoordInit ==
    /\ prog = "server"
    /\ proj = InitProj
    /\ source = <<>>
    /\ \E cell \in CoordinateCells : sheetRows = << RawRow(SheetA, S1, <<>>, cell) >>
    /\ sheetNames = {SHEET_NAME}
    /\ drive = <<>>
    /\ req = NoReq
    /\ pc = "co_idle"
    /\ i = 0
    /\ loc = NoLoc
    /\ sourceContent = <<>>
    /\ scriptIdMap = EmptyMap
    /\ targetSpreadsheets = <<>>
    /\ response = NoResponses
    /\ sent = <<>>
    /\ calls = <<>>
    /\ hist = NoHist

CoordRead ==
    /\ pc = "co_idle"
    /\ scriptIdMap' = readScriptIds(parseRows(sheetRows))
    /\ pc' = "co_done"
    /\ UNCHANGED <<prog, proj, remoteRO, req, i, loc, sourceContent,
                   targetSpreadsheets, response, sent, calls, hist>>

CoordNext == CoordRead

SpecCoord == CoordInit /\ [][CoordNext]_vars

\* the coordinate list decoded for the row
Decoded == MapGet(scriptIdMap, SheetA).coordinates

\* the token begins with an integer
LeadsWithInteger(t) ==
    \/ Len(t) >= 1 /\ t[1] \in DigitSet
    \/ Len(t) >= 2 /\ t[1] \in {"-", "+"} /\ t[2] \in DigitSet

\* the pair of token positions (2k - 1, 2k), as integers
PairAt(tokens, k) == << parseInt(tokens[2 * k - 1]).val, parseInt(tokens[2 * k]).val >>

----------------------------------------------------------------------------
(* Claims about the two operations of one request, under Spec *)

\* the server has answered the request with a summary
Answered == pc = "done" /\ prog = "server" /\ sent # <<>> /\ sent[Len(sent)] \in {"200", "500"}

\* the read of the master sheet for copyFunctions failed
FnReadFailed == Answered /\ sent[Len(sent)] = "500"

\* C19: when copyButtons is enabled, every copyButtons target is processed
\* and reported in the response whatever became of copyFunctions in the same
\* request, the failure of its read of the master sheet included.
C19_OperationsIndependent ==
    (Answered /\ req.btnEnable) =>
        /\ Len(TargetsOf("btn")) = Len(req.btnTargets)
        /\ Enumerates(response.copyButtons, req.btnTargets)

\* a read of the master sheet in cs did not return its map
ReadFailureIn(cs) ==
    \/ \E j \in 1..Len(cs) : cs[j].api \in {"sheets.get", "values.get"} /\ ~cs[j].ok
    \/ cs # <<>> /\ cs[1].api = "sheets.get" /\ SHEET_NAME \notin sheetNames

\* C20 as stated: once the master sheet cannot be read during an operation,
\* no further remote call is issued for any target of that operation
C20_Original ==
    prog = "server" =>
        LET es == TargetsOf("btn")
        IN  /\ FnReadFailed => (TargetsOf("fn") = <<>> /\ ReadFailed(calls))
            /\ \A k \in 1..Len(es) :
                  ReadFailureIn(es[k].calls) =>
                      \A j \in (k + 1)..Len(es) : es[j].calls = <<>>

\* C20: when copyFunctions cannot read the master sheet it stops at once:
\* none of its targets is processed and no remote call follows the failed read.
\* copyButtons has no read of its own: each of its targets reads the master
\* sheet itself, a target whose read fails is marked failed with no further
\* remote call for that target, and the targets after it are still processed,
\* each beginning with its own read.
C20_SetupFailure ==
    prog = "server" =>
        LET es == TargetsOf("btn")
        IN  /\ FnReadFailed => (TargetsOf("fn") = <<>> /\ ReadFailed(calls))
            /\ \A k \in 1..Len(es) :
                  /\ es[k].calls # <<>>
                  /\ es[k].calls[1].api = "sheets.get"
                  /\ ReadFailureIn(es[k].calls) =>
                        (ReadFailed(es[k].calls) /\ es[k].status = "failed")
            /\ BatchDone => Len(es) = (IF req.btnEnable THEN Len(req.btnTargets) ELSE 0)

\* the first copyButtons target failed at its read of the master sheet and
\* the second was processed to the end
C20_Witness ==
    /\ prog = "server" /\ BatchDone
    /\ Len(TargetsOf("btn")) = 2
    /\ ReadFailed(TargetsOf("btn")[1].calls)
    /\ TargetsOf("btn")[1].status = "failed"
    /\ TargetsOf("btn")[2].status = "success"

----------------------------------------------------------------------------
(* Claims about the summary counters, under Spec *)

\* the targets of a server operation, none when the operation is not enabled
InputTargets(op) ==
    IF op = "fn" THEN (IF req.fnEnable THEN req.fnTargets ELSE <<>>)
    ELSE (IF req.btnEnable THEN req.btnTargets ELSE <<>>)

SummaryOf(op) == IF op = "btn" THEN response.copyButtons ELSE response.copyFunctions

\* the counters of one operation against what has been processed so far
CountersTrack(op) ==
    LET r == SummaryOf(op)
        es == TargetsOf(op)
    IN  /\ r.successful + r.failed = Len(es)
        /\ r.successful = Cardinality({k \in 1..Len(es) : es[k].status = "success"})

\* C21: at every point of a batch successful + failed is the number of
\* targets processed so far and, where details are kept per target, the number
\* of detail entries; when the summary is emitted successful + failed = total
\* = the number of targets and the i-th detail is the outcome of the i-th
\* input target.
C21_SummaryCounters ==
    IF prog = "cli"
    THEN /\ CountersTrack("cli")
         /\ BatchDone =>
               /\ response.copyFunctions.total = Len(targetSpreadsheets)
               /\ response.copyFunctions.successful + response.copyFunctions.failed
                     = Len(targetSpreadsheets)
    ELSE \A op \in {"fn", "btn"} :
           LET r == SummaryOf(op)
               es == TargetsOf(op)
           IN  /\ CountersTrack(op)
               /\ Len(r.details) = Len(es)
               /\ Answered =>
                     /\ r.total = Len(InputTargets(op))
                     /\ r.successful + r.failed = r.total
                     /\ \A k \in 1..Len(InputTargets(op)) :
                           /\ k <= Len(r.details)
                           /\ r.details[k].spreadsheetId
                                 = extractSpreadsheetId(InputTargets(op)[k])
                           /\ r.details[k].status = es[k].status

\* the same on the paths that end in 200 or in the cli's summary
C21_OnSummaryPaths ==
    (prog = "server" /\ sent # <<>> /\ sent[Len(sent)] = "500") \/ C21_SummaryCounters

----------------------------------------------------------------------------
(* Claims about the effect of a transfer, under SpecTransfer *)

\* the source project's file that the program copies
DesignatedFile ==
    IF prog = "cli" THEN sourceCodeFile(source) ELSE sourceFunctionFile(source)

\* the file list holds a code file with the source of the designated file
HoldsCopiedCode(files) ==
    \E k \in 1..Len(files) :
        files[k].type = "SERVER_JS" /\ files[k].source = DesignatedFile.source

\* C22: whenever a transfer to a target is reported successful, the target
\* project afterwards holds a code file whose source is the source of the
\* source project's designated code file, whatever the target held before.
C22_TransferTakesEffect ==
    \A j \in 1..Len(hist.runs) : hist.runs[j].ok => HoldsCopiedCode(hist.runs[j].after)

\* the same for the server's copyFunction alone
C22_ServerTakesEffect ==
    prog = "server" => C22_TransferTakesEffect

----------------------------------------------------------------------------
(* Claims about the result of the remote procedure, under Spec *)

\* C23: a copyButtons target is recorded success only if the result returned
\* by the remote procedure reports success; when the procedure returns
\* {success: false, error}, the target sheet not being found for instance, the
\* target is recorded failed.
C23_SuccessOnlyIfProcedureSucceeded ==
    prog = "server" =>
        \A k \in 1..Len(TargetsOf("btn")) :
            LET e == TargetsOf("btn")[k]
            IN  /\ e.status = "success" => e.exec.success
                /\ (e.run = "returned" /\ ~e.exec.success) => e.status = "failed"

----------------------------------------------------------------------------
(* copyButtonsFromSheet on its own, applied to one target whose row of the
   master sheet is any entry, or is missing *)

\* rows of the target: any script id cell, at most MaxButtons image ids and
\* at most MaxButtons coordinate pairs
PlaceRows ==
    { Row(SheetA, sid, im, co) :
        sid \in {S1, BadScriptId, NoId},
        im \in Seqs(ImageIds, MaxButtons), co \in Seqs(Coordinates, MaxButtons) }

PlaceInit ==
    /\ prog = "server"
    /\ proj = InitProj
    /\ source = <<>>
    /\ sheetRows \in { <<>> } \cup { << r >> : r \in PlaceRows }
    /\ sheetNames = {SHEET_NAME}
    /\ drive = <<>>
    /\ req = NoReq
    /\ pc = "pl_idle"
    /\ i = 0
    /\ loc = NoLoc
    /\ sourceContent = <<>>
    /\ scriptIdMap = EmptyMap
    /\ targetSpreadsheets = <<>>
    /\ response = NoResponses
    /\ sent = <<>>
    /\ calls = <<>>
    /\ hist = NoHist

\* line 277: copyButtonsFromSheet is entered for the target
PlaceStart ==
    /\ pc = "pl_idle"
    /\ loc' = [NoLoc EXCEPT !.target = SheetA, !.ret = "pl_done"]
    /\ calls' = <<>>
    /\ pc' = "cb_read"
    /\ UNCHANGED <<prog, proj, remoteRO, req, i, sourceContent, scriptIdMap,
                   targetSpreadsheets, response, sent, hist>>

PlaceNext ==
    \/ PlaceStart
    \/ CbRead
    \/ CbValidate
    \/ CbReadTarget
    \/ CbPush
    \/ CbRun

SpecPlace == PlaceInit /\ [][PlaceNext]_vars

\* the target's row, NoEntry-like when the sheet has none
TargetRow == IF sheetRows = <<>> THEN Row(SheetA, NoId, <<>>, <<>>) ELSE sheetRows[1]

\* a precondition of the placement fails for the target
PreconditionFails ==
    \/ TargetRow.scriptId = NoId
    \/ Len(TargetRow.scriptId) < MinScriptIdLen
    \/ Call("projects.get", FALSE) \in {calls[k] : k \in 1..Len(calls)}
    \/ Len(TargetRow.buttonImageIds) = 0
    \/ Len(TargetRow.coordinates) = 0
    \/ Len(TargetRow.buttonImageIds) # Len(TargetRow.coordinates)

\* C24: when a precondition of the placement fails for a target (no row or
\* no script id in the master sheet, script id not valid, no image ids, no
\* coordinates, or counts that differ), neither updateContent nor scripts.run
\* is issued for the target and its script project is left as it was.
C24_NoMutationOnPreconditionFailure ==
    PreconditionFails =>
        /\ \A k \in 1..Len(calls) : calls[k].api \notin {"updateContent", "scripts.run"}
        /\ proj = InitProj
        /\ pc = "pl_done" => loc.result = "throw"

\* the counts differ: the target failed after the probe, with no write
C24_Witness ==
    /\ pc = "pl_done"
    /\ Len(TargetRow.buttonImageIds) = 1 /\ Len(TargetRow.coordinates) = 2
    /\ loc.result = "throw"
    /\ calls = << Call("sheets.get", TRUE), Call("values.get", TRUE),
                  Call("projects.get", TRUE) >>
    /\ proj = InitProj

----------------------------------------------------------------------------
(* Claims about the order of the remote calls, under Spec *)

FnTargetStates == {"cf_src", "cf_tgt", "cf_push", "fn_record"}
BtnTargetStates == {"cb_read", "cb_validate", "cb_tgt", "cb_push", "cb_run", "btn_record"}
CliTargetStates == {"us_tgt", "us_push", "m_record"}

\* the operation whose loop is running
RunningOp ==
    IF prog = "cli" THEN "cli"
    ELSE IF pc \in FnTargetStates \cup {"fn_loop"} THEN "fn" ELSE "btn"

\* a target is being processed
InTarget == pc \in FnTargetStates \cup BtnTargetStates \cup CliTargetStates

\* the place of a call in the order read target content, write content, execute
Rank(api) ==
    CASE api = "getContent:target" -> 1
      [] api = "updateContent" -> 2
      [] api = "scripts.run" -> 3
      [] OTHER -> 0

InOrder(cs) ==
    \A a, b \in 1..Len(cs) :
        (a < b /\ Rank(cs[a].api) > 0 /\ Rank(cs[b].api) > 0) =>
            Rank(cs[a].api) < Rank(cs[b].api)

\* C25: no remote call for target i+1 is issued before the outcome of target
\* i has been appended to the summary, and within one target the calls occur
\* in the order read target content, write content, execute.
C25_StrictSequencing ==
    /\ (InTarget \/ pc \in {"fn_loop", "btn_loop", "m_loop"}) =>
          LET r == SummaryOf(RunningOp)
          IN  /\ Len(TargetsOf(RunningOp)) = i
              /\ r.successful + r.failed = i
              /\ prog = "server" => Len(r.details) = i
    /\ InOrder(calls)
    /\ \A k \in 1..Len(hist.targets) : InOrder(hist.targets[k].calls)
    /\ prog = "server" =>
          \A op \in {"fn", "btn"} : \A k \in 1..Len(TargetsOf(op)) :
              TargetsOf(op)[k].ref = InputTargets(op)[k]

\* the second target is at its execution, the first one's outcome is recorded
C25_Witness ==
    /\ pc = "btn_record" /\ i = 1
    /\ Len(TargetsOf("btn")) = 1 /\ Len(response.copyButtons.details) = 1
    /\ Len(calls) >= 3
    /\ calls[Len(calls)].api = "scripts.run"
    /\ calls[Len(calls) - 1].api = "updateContent"
    /\ calls[Len(calls) - 2].api = "getContent:target"

----------------------------------------------------------------------------
(* Two invocations of the server on one target project, from two requests
   whose handlers interleave at their awaits: each reads the target's content
   and then replaces it; pc and loc hold one value per invocation *)

Invocations == {1, 2}

RaceOps == {"fn", "btn"}

\* the source file the transfers copy
RaceSourceFile == File(CodeName, "SERVER_JS", "new")

RaceInit ==
    /\ prog = "server"
    /\ \E fl \in FileLists(TargetFileUniverse, MaxFiles) :
         proj = [s \in ScriptIds |-> fl]
    /\ source = << RaceSourceFile >>
    /\ sheetRows = <<>>
    /\ sheetNames = {SHEET_NAME}
    /\ drive = <<>>
    /\ req = NoReq
    /\ pc = [p \in Invocations |-> "r_read"]
    /\ i = 0
    /\ \E ops \in [Invocations -> RaceOps] :
         loc = [p \in Invocations |->
                   [NoLoc EXCEPT !.op = ops[p], !.sid = S1, !.srcFile = RaceSourceFile]]
    /\ sourceContent = <<>>
    /\ scriptIdMap = EmptyMap
    /\ targetSpreadsheets = <<>>
    /\ response = NoResponses
    /\ sent = <<>>
    /\ calls = <<>>
    /\ hist = NoHist

\* part_001:203-208 and 451-456: read the target project; a failure is swallowed
RaceRead(p) ==
    /\ pc[p] = "r_read"
    /\ \E ok \in BOOLEAN :
         /\ calls' = Append(calls, Call("getContent:target", ok))
         /\ loc' = [loc EXCEPT ![p].fetchOk = ok,
                                ![p].fetched = existingFiles(ok, loc[p].sid)]
    /\ pc' = [pc EXCEPT ![p] = "r_write"]
    /\ UNCHANGED <<prog, proj, remoteRO, req, i, sourceContent, scriptIdMap,
                   targetSpreadsheets, response, sent, hist>>

\* part_001:210-226 and 458-473: build the list from what was read, replace
\* the target's content
RaceWrite(p) ==
    /\ pc[p] = "r_write"
    /\ LET files == IF loc[p].op = "fn"
                    THEN targetFiles(loc[p].fetched, loc[p].srcFile)
                    ELSE filesWithTemp(loc[p].fetched)
       IN  \E ok \in BOOLEAN :
             /\ calls' = Append(calls, Call("updateContent", ok))
             /\ loc' = [loc EXCEPT ![p].pushed = TRUE, ![p].pushOk = ok, ![p].files = files,
                                    ![p].result = IF ok THEN "ok" ELSE "throw"]
             /\ proj' = IF ok
                        THEN [proj EXCEPT ![loc[p].sid] = contentAfterUpdate(@, files)]
                        ELSE proj
             /\ hist' = IF ok
                        THEN [hist EXCEPT !.runs = Append(@, [by |-> p, files |-> files])]
                        ELSE hist
    /\ pc' = [pc EXCEPT ![p] = "r_done"]
    /\ UNCHANGED <<prog, remoteRO, req, i, sourceContent, scriptIdMap,
                   targetSpreadsheets, response, sent>>

RaceNext == \E p \in Invocations : RaceRead(p) \/ RaceWrite(p)

SpecRace == RaceInit /\ [][RaceNext]_vars

RaceOver == \A p \in Invocations : pc[p] = "r_done"

----------------------------------------------------------------------------
(* A batch of transfers during which the source project is edited: the cli's
   main reads the source once and then loops over the targets; the server's
   loop calls copyFunction, which reads the source for every target *)

SourceBefore == << File(ManifestName, "JSON", "srcmanifest"), File(CodeName, "SERVER_JS", "new") >>
SourceAfter == << File(ManifestName, "JSON", "srcmanifest"), File(CodeName, "SERVER_JS", "newer") >>

\* the script project of the k-th target
SnapTargetId(k) == IF k % 2 = 1 THEN S1 ELSE S2

SnapInit ==
    /\ prog \in {"cli", "server"}
    /\ proj = InitProj
    /\ source = SourceBefore
    /\ sheetRows = <<>>
    /\ sheetNames = {SHEET_NAME}
    /\ drive = <<>>
    /\ req = NoReq
    /\ pc = IF prog = "cli" THEN "sn_src" ELSE "sn_loop"
    /\ i = 0
    /\ loc = NoLoc
    /\ sourceContent = <<>>
    /\ scriptIdMap = EmptyMap
    /\ targetSpreadsheets = <<>>
    /\ response = NoResponses
    /\ sent = <<>>
    /\ calls = <<>>
    /\ hist = NoHist

\* index.js:312-315: the source content is read before the loop
SnapReadSource ==
    /\ pc = "sn_src"
    /\ loc' = loc
    /\ GetScriptContent("sn_loop", "sn_end")

\* index.js:321-343, part_001:679-687: the loop takes the next target
SnapTarget ==
    /\ pc = "sn_loop"
    /\ i < MaxTransfers
    /\ loc' = [NoLoc EXCEPT !.sid = SnapTargetId(i + 1), !.ret = "sn_record",
                            !.before = proj[SnapTargetId(i + 1)]]
    /\ calls' = <<>>
    /\ pc' = IF prog = "server" THEN "cf_src" ELSE "us_tgt"
    /\ UNCHANGED <<prog, proj, remoteRO, req, i, sourceContent, scriptIdMap,
                   targetSpreadsheets, response, sent, hist>>

\* index.js:344-350, part_001:688-701: the target's outcome, and the next index
SnapRecord ==
    /\ pc = "sn_record"
    /\ hist' = [hist EXCEPT !.runs = Append(@,
                   [ok |-> loc.result = "ok", fetchOk |-> loc.fetchOk,
                    files |-> loc.files, src |-> source])]
    /\ i' = nextIndex(i, MaxTransfers, loc.result # "ok")
    /\ pc' = "sn_loop"
    /\ UNCHANGED <<prog, proj, remoteRO, req, loc, sourceContent, scriptIdMap,
                   targetSpreadsheets, response, sent, calls>>

\* the environment: the source project is edited between two targets
SourceEdited ==
    /\ pc = "sn_loop"
    /\ i >= 1
    /\ source = SourceBefore
    /\ source' = SourceAfter
    /\ UNCHANGED <<prog, proj, sheetRows, sheetNames, drive, req, pc, i, loc,
                   sourceContent, scriptIdMap, targetSpreadsheets, response, sent,
                   calls, hist>>

SnapNext ==
    \/ SnapReadSource
    \/ SnapTarget
    \/ SnapRecord
    \/ SourceEdited
    \/ CfReadSource
    \/ CfReadTarget
    \/ CfPush
    \/ UsReadTarget
    \/ UsPush

SpecSnap == SnapInit /\ [][SnapNext]_vars

\* the code sources in a pushed list
PushedCodeSources(files) ==
    {files[k].source : k \in {j \in 1..Len(files) : files[j].type = "SERVER_JS"}}

\* the source of the Code file of a source project
CodeSourceOf(files) == sourceFunctionFile(files).source

\* C27 as stated: the source file list used for a target was fetched while
\* that target was processed, so the list pushed to a target carries the
\* code the source project held at that time.
C27_Original ==
    \A j \in 1..Len(hist.runs) :
        hist.runs[j].ok => CodeSourceOf(hist.runs[j].src) \in PushedCodeSources(hist.runs[j].files)

\* C27: the target's file list used for a target is fetched while that
\* target is processed, in both programs. The server also fetches the source
\* project for every target, so an edit of the source between two targets
\* shows in the later transfer; the cli fetches the source once before its loop
\* and pushes that snapshot's code to every target, whatever the source
\* project has become meanwhile.
C27_SnapshotUse ==
    /\ (pc \in {"cf_push", "us_push"} /\ loc.fetchOk) => loc.fetched = proj[loc.sid]
    /\ pc = "cf_tgt" => loc.srcFile = sourceFunctionFile(source)
    /\ \A j \in 1..Len(hist.runs) :
          hist.runs[j].ok =>
              IF prog = "server"
              THEN CodeSourceOf(hist.runs[j].src) \in PushedCodeSources(hist.runs[j].files)
              ELSE PushedCodeSources(hist.runs[j].files) \subseteq {CodeSourceOf(SourceBefore)}

\* the cli pushed the first snapshot's code to the second target after the
\* source had been edited
C27_Witness ==
    /\ prog = "cli" /\ Len(hist.runs) >= 2
    /\ hist.runs[2].ok /\ hist.runs[2].src = SourceAfter
    /\ PushedCodeSources(hist.runs[2].files) = {"new"}

----------------------------------------------------------------------------
(* Termination of a batch: the two programs under the assumption that every
   remote call returns or raises, so that a step that can be taken is taken *)

SpecLive == Init /\ [][Next]_vars /\ WF_vars(Next)

\* what the server can answer, what the cli can end with
ServerAnswers == {"200", "400", "401", "500"}

\* every target of the invocation has been taken, once
AllTargetsTaken ==
    IF prog = "cli"
    THEN Len(TargetsOf("cli")) = Len(targetSpreadsheets)
    ELSE \A op \in {"fn", "btn"} : Len(TargetsOf(op)) = Len(InputTargets(op))

\* the state in which an invocation is allowed to be over
EndsProperly ==
    IF prog = "server"
    THEN /\ Len(sent) = 1
         /\ sent[1] \in ServerAnswers
         /\ sent[1] = "200" => AllTargetsTaken
    ELSE \/ sent = <<"summary">> /\ targetSpreadsheets # <<>> /\ AllTargetsTaken
         \/ sent = <<"exit1">> /\ hist.targets = <<>>
         \/ sent = <<>> /\ targetSpreadsheets = <<>> /\ hist.targets = <<>>

\* the statement as written: every invocation that is over has emitted exactly
\* one summary or response
C28_Original ==
    pc = "done" => Len(sent) = 1 /\ sent[1] \in ServerAnswers \cup {"summary"}

\* C28: every invocation terminates, whatever the number of targets and the
\* pattern of per-target failures, and nothing is emitted twice.  The server
\* answers exactly once, with 200 after every target was taken or with 400,
\* 401 or 500.  The cli prints its summary exactly once when it reaches the
\* loop over the targets, and otherwise ends without a summary: with exit
\* code 1 on a fatal error, or with nothing but a message when the sheet
\* holds no spreadsheet id.
C28_TerminatesWithOneAnswer ==
    /\ <>(pc = "done")
    /\ [](Len(sent) <= 1)
    /\ [](pc # "done" => sent = <<>>)
    /\ [](pc = "done" => EndsProperly)

\* a batch of two targets is over, one target failed and one succeeded
C28_Witness ==
    /\ pc = "done"
    /\ \/ /\ prog = "cli" /\ sent = <<"summary">>
          /\ Len(TargetsOf("cli")) = 2
          /\ TargetsOf("cli")[1].status = "failed"
          /\ TargetsOf("cli")[2].status = "success"
       \/ /\ prog = "server" /\ sent = <<"200">>
          /\ Len(TargetsOf("fn")) = 2
          /\ TargetsOf("fn")[1].status = "failed"
          /\ TargetsOf("fn")[2].status = "success"

----------------------------------------------------------------------------
(* Claims about the keys of the server's manifest, under SpecRows *)

\* the rows readScriptIds accepts: spreadsheet id and script id both present
AcceptedRows == {k \in 1..Len(sheetRows) : ResolvedId(k) # NoId /\ HasScriptId(k)}

\* the last accepted row, in sheet order, that resolves to key
LastRowOf(key) ==
    CHOOSE k \in AcceptedRows :
        /\ ResolvedId(k) = key
        /\ \A j \in AcceptedRows : ResolvedId(j) = key => j <= k

\* the entry readScriptIds builds from the k-th row
EntryOfRow(k) ==
    [scriptId |-> Trim(sheetRows[k].scriptId),
     buttonImageIds |-> tokensOf(sheetRows[k].images),
     coordinates |-> decodeCoordinates(sheetRows[k].coords)]

\* C29: the keys of the server's manifest are unique: every accepted row's
\* spreadsheet id is a key, each key holds the script id, asset ids and
\* coordinates of the last accepted row, in sheet order, that resolves to it,
\* and the manifest has no more entries than there are accepted rows.
C29_ManifestKeysUnique ==
    (pc = "rd_done" /\ prog = "server") =>
        /\ DOMAIN scriptIdMap = {ResolvedId(k) : k \in AcceptedRows}
        /\ \A key \in DOMAIN scriptIdMap : scriptIdMap[key] = EntryOfRow(LastRowOf(key))
        /\ Cardinality(DOMAIN scriptIdMap) <= Cardinality(AcceptedRows)

\* two accepted rows name the same spreadsheet, by its id and by its url, with
\* different script ids and coordinates; the manifest holds the second row's
C29_Witness ==
    /\ pc = "rd_done" /\ prog = "server"
    /\ AcceptedRows = {1, 2}
    /\ sheetRows[1].id # sheetRows[2].id
    /\ ResolvedId(1) = SheetA /\ ResolvedId(2) = SheetA
    /\ EntryOfRow(1).scriptId # EntryOfRow(2).scriptId
    /\ EntryOfRow(1).coordinates # EntryOfRow(2).coordinates
    /\ DOMAIN scriptIdMap = {SheetA}
    /\ scriptIdMap[SheetA] = EntryOfRow(2)

====
